---- MODULE Spec2Model ----
(***************************************************************************)
(* A model of the dav1d frame driver and of its collaborators:             *)
(*   - the thread-shared picture's progress counters (src/picture.c),      *)
(*   - decode_frame / submit_frame and the partition walker (src/decode.c).*)
(* Each part of the program has its own variables and its own              *)
(* specification; a specification leaves the other parts' variables alone. *)
(***************************************************************************)
EXTENDS Integers, Naturals, Sequences, FiniteSets, TLC

(***************************************************************************)
(* Bounds of the model.                                                    *)
(***************************************************************************)
\* number of dav1d_thread_picture_signal calls the picture's producer makes
MaxSignals == 2
\* width in bits of the model's int / unsigned (the program's are 32 bits wide;
\* every row and size of the model is far below 2^(IntBits-1))
IntBits == 16
\* largest number of tile columns and of superblock rows of a frame
MaxTileCols == 3
MaxSbRows == 2
\* number of frames that go through the first frame context: a run makes
\* MaxFrames + n_fc - 1 submit_frame calls
MaxFrames == 2

VARIABLES
    \* ---- src/picture.c: one Dav1dThreadPicture and the threads using it
    pic,        \* [h, ss_ver, t]: p->p.p.h, layout == I420, p->t != NULL
    progress,   \* <<progress[0], progress[1]>>, atomic_uint each
    plock,      \* owner of p->t->lock: 0 (free), a waiter, or SigOwner
    condq,      \* the waiters sleeping in pthread_cond_wait(&p->t->cond)
    wpc,        \* each waiter's position in dav1d_thread_picture_wait
    warg,       \* each waiter's arguments and locals [y_unclipped, plane_type, y, idx]
    spc,        \* the producer's position in dav1d_thread_picture_signal
    sarg,       \* the producer's arguments [y, plane_type]
    nsig,       \* signal calls made so far
    sigLog      \* plane types of the signal calls made so far

picVars == <<pic, progress, plock, condq, wpc, warg, spc, sarg, nsig, sigLog>>

VARIABLES
    \* ---- src/decode.c: decode_frame's tile-threaded pass loop (n_tc > 1)
    tgeom,      \* [cols, rs, n_tc, two_pass]: tiling.cols, tiling.row_start_sb,
                \* f->n_tc, uses_2pass
    tpass,      \* f->frame_thread.pass
    tprog,      \* ts->progress of every tile, by tile index
    tpub,       \* largest progress a worker published for the tile in this pass
    tlock,      \* owner of ts->tile_thread.lock of every tile (0: free)
    num_tasks,  \* f->tile_thread.num_tasks
    tasks_left, \* f->tile_thread.tasks_left
    dpc,        \* the frame driver's position
    dpos,       \* the driver's loop variables [row, sby, col]
    wk          \* every tile worker's position and task [pc, tile, sby, last]

tileVars == <<tgeom, tpass, tprog, tpub, tlock, num_tasks, tasks_left, dpc, dpos, wk>>

VARIABLES
    \* ---- src/decode.c: submit_frame / decode_frame (n_tc == 1)
    c,          \* Dav1dContext: n_fc, frame_thread.next, out, refs[8], cdf[8],
                \* out_delayed[], and the parsed frame_hdr, tile[], n_tile_data
    f,          \* c->fc[]: the frame contexts, each with decode_frame's position
    rc,         \* reference counts of the pictures, cdfs, segmaps, mv buffers
    pics,       \* the pictures: [w, h, layout, t, visible, prog]
    cdfs,       \* the cdf tables: [t, sig, upd]
    sf,         \* submit_frame: [pc, slot, res, ret]
    tdlock,     \* owner of each slot's frame_thread.td.lock (0: free)
    calls,      \* <<pass, hook>>: the bd_fn hooks and msac reads made by the
                \* latest decode_tile_sbrow call or filter step
    nframes     \* submit_frame calls so far

frameVars == <<c, f, rc, pics, cdfs, sf, tdlock, calls, nframes>>

VARIABLES
    \* ---- src/getbits.c: the bit reader
    gb,         \* GetBits: [data, ptr, ptr_end, bits_left, state, error, eof]
    rd          \* the reader's caller: its position, the latest call and
                \* what it returned, the bits asked for so far

bitVars == <<gb, rd>>

VARIABLES
    \* ---- functions of their arguments alone
    call        \* the latest call: [fn, ...arguments, ...results]

fnVars == <<call>>

vars == <<picVars, tileVars, frameVars, bitVars, fnVars>>

(***************************************************************************)
(* Integer helpers (common/intops.h semantics, C conversions).             *)
(***************************************************************************)
UINT_MAX == 2^IntBits - 1

iclip(v, lo, hi) == IF v < lo THEN lo ELSE IF v > hi THEN hi ELSE v

imin(a, b) == IF a < b THEN a ELSE b

imax(a, b) == IF a > b THEN a ELSE b

\* an unsigned value passed through an int parameter
AsInt(v) == IF v >= 2^(IntBits - 1) THEN v - 2^IntBits ELSE v

\* an int stored into / compared with an unsigned
AsUint(i) == i % (2^IntBits)

(***************************************************************************)
(* src/picture.c: dav1d_thread_picture_wait / dav1d_thread_picture_signal  *)
(***************************************************************************)
\* the threads calling dav1d_thread_picture_wait on the picture
Waiters == {1, 2}

\* the producer thread, as an owner of the lock
SigOwner == Cardinality(Waiters) + 1

PlaneTypes == {"Y", "UV", "BLOCK", "ALL"}

\* enum PlaneType: PLANE_TYPE_Y, PLANE_TYPE_UV, PLANE_TYPE_BLOCK, PLANE_TYPE_ALL
PlaneTypeNum(pt) ==
    CASE pt = "Y" -> 0 [] pt = "UV" -> 1 [] pt = "BLOCK" -> 2 [] pt = "ALL" -> 3

\* plane_type & ss_ver, both 0..3 / 0..1: the low bit of plane_type when ss_ver
BitAndSsVer(pt, ss_ver) == IF ss_ver = 1 THEN PlaneTypeNum(pt) % 2 ELSE 0

\* picture.c:161-164, the row the wait is for, in luma units
WaitRow(y_unclipped, pt, ss_ver, h) ==
    iclip(y_unclipped * (2 ^ BitAndSsVer(pt, ss_ver))
            + (IF pt # "BLOCK" THEN 8 ELSE 0), 1, h)

\* picture.c:165, the counter a wait of this plane type reads
WaitIdxMutant(pt) == 1
WaitIdx(pt) == IF pt # "BLOCK" THEN 1 ELSE 0

\* picture.c:186-187, the counters a signal of this plane type stores to
SignalStores(pt) ==
    (IF pt # "Y" THEN {0} ELSE {}) \cup (IF pt # "BLOCK" THEN {1} ELSE {})

\* picture.c:185, the signal takes p->t->lock around its stores and broadcast
SignalWithoutLock == FALSE
SignalTakesLock == TRUE

\* picture.c:188, pthread_cond_broadcast wakes every sleeping waiter
Broadcast(q) == q

Prog(i) == progress[i + 1]

\* rows a waiter may ask for, rows a producer publishes, picture heights
WaitRows == {0, 40}
SignalRows == {64, UINT_MAX}
PicHeights == {80}

NoWArg == [y_unclipped |-> 0, plane_type |-> "Y", y |-> 0, idx |-> 0]
NoSArg == [y |-> 0, plane_type |-> "ALL"]

\* the picture part at rest, for the specifications of the other parts
PicOff ==
    /\ pic = [h |-> 1, ss_ver |-> 0, t |-> FALSE]
    /\ progress = <<0, 0>>
    /\ plock = 0
    /\ condq = {}
    /\ wpc = [w \in Waiters |-> "done"]
    /\ warg = [w \in Waiters |-> NoWArg]
    /\ spc = "off"
    /\ sarg = NoSArg
    /\ nsig = 0
    /\ sigLog = {}

PicInit ==
    /\ pic \in [h : PicHeights, ss_ver : {0, 1}, t : BOOLEAN]
    /\ progress = <<0, 0>>      \* dav1d_thread_picture_alloc, picture.c:106-109
    /\ plock = 0
    /\ condq = {}
    /\ wpc = [w \in Waiters |-> "idle"]
    /\ warg = [w \in Waiters |-> NoWArg]
    /\ spc = "idle"
    /\ sarg = NoSArg
    /\ nsig = 0
    /\ sigLog = {}

\* picture.c:152-168: entry, the !p->t return, and the lock-free fast path
WaitCall(w) ==
    /\ wpc[w] = "idle"
    /\ \E yu \in WaitRows, pt \in {"Y", "UV", "BLOCK"} :   \* assert != ALL
        LET y == WaitRow(yu, pt, pic.ss_ver, pic.h)
            idx == WaitIdx(pt)
        IN /\ warg' = [warg EXCEPT ![w] =
                          [y_unclipped |-> yu, plane_type |-> pt, y |-> y, idx |-> idx]]
           /\ wpc' = [wpc EXCEPT ![w] =
                          IF ~pic.t THEN "done"
                          ELSE IF Prog(idx) >= AsUint(y) THEN "done"
                          ELSE "lock"]
    /\ UNCHANGED <<pic, progress, plock, condq, spc, sarg, nsig, sigLog>>
    /\ UNCHANGED <<tileVars, frameVars, bitVars, fnVars>>

\* picture.c:170 and the re-acquisition inside pthread_cond_wait
WaitLock(w) ==
    /\ wpc[w] = "lock"
    /\ plock = 0
    /\ plock' = w
    /\ wpc' = [wpc EXCEPT ![w] = "loop"]
    /\ UNCHANGED <<pic, progress, condq, warg, spc, sarg, nsig, sigLog>>
    /\ UNCHANGED <<tileVars, frameVars, bitVars, fnVars>>

\* picture.c:171: the loop test, under the lock
WaitCheck(w) ==
    /\ wpc[w] = "loop"
    /\ wpc' = [wpc EXCEPT ![w] =
                  IF Prog(warg[w].idx) < AsUint(warg[w].y) THEN "towait" ELSE "unlock"]
    /\ UNCHANGED <<pic, progress, plock, condq, warg, spc, sarg, nsig, sigLog>>
    /\ UNCHANGED <<tileVars, frameVars, bitVars, fnVars>>

\* picture.c:172: pthread_cond_wait releases the lock and sleeps, atomically
WaitSleep(w) ==
    /\ wpc[w] = "towait"
    /\ condq' = condq \cup {w}
    /\ plock' = IF plock = w THEN 0 ELSE plock
    /\ wpc' = [wpc EXCEPT ![w] = "sleeping"]
    /\ UNCHANGED <<pic, progress, warg, spc, sarg, nsig, sigLog>>
    /\ UNCHANGED <<tileVars, frameVars, bitVars, fnVars>>

\* picture.c:173-174
WaitUnlock(w) ==
    /\ wpc[w] = "unlock"
    /\ plock' = IF plock = w THEN 0 ELSE plock
    /\ wpc' = [wpc EXCEPT ![w] = "done"]
    /\ UNCHANGED <<pic, progress, condq, warg, spc, sarg, nsig, sigLog>>
    /\ UNCHANGED <<tileVars, frameVars, bitVars, fnVars>>

\* picture.c:176-183: entry and the !p->t return.  The producer publishes
\* rows in increasing order (decode.c:2563, 2613, 2643).
SignalCall ==
    /\ spc = "idle"
    /\ nsig < MaxSignals
    /\ \E y \in SignalRows, pt \in {"Y", "BLOCK", "ALL"} :   \* assert != UV
        /\ \A i \in SignalStores(pt) : Prog(i) <= y
        /\ sarg' = [y |-> AsInt(y), plane_type |-> pt]
        /\ sigLog' = IF pic.t THEN sigLog \cup {pt} ELSE sigLog
    /\ nsig' = nsig + 1
    /\ spc' = IF ~pic.t THEN "idle" ELSE "lock"
    /\ UNCHANGED <<pic, progress, plock, condq, wpc, warg>>
    /\ UNCHANGED <<tileVars, frameVars, bitVars, fnVars>>

\* picture.c:185
SignalLock ==
    /\ spc = "lock"
    /\ IF SignalTakesLock
         THEN plock = 0 /\ plock' = SigOwner
         ELSE plock' = plock
    /\ spc' = "store"
    /\ UNCHANGED <<pic, progress, condq, wpc, warg, sarg, nsig, sigLog>>
    /\ UNCHANGED <<tileVars, frameVars, bitVars, fnVars>>

\* picture.c:186-187
SignalStore ==
    /\ spc = "store"
    /\ progress' = [i \in 1..2 |->
                      IF (i - 1) \in SignalStores(sarg.plane_type)
                        THEN AsUint(sarg.y) ELSE progress[i]]
    /\ spc' = "bcast"
    /\ UNCHANGED <<pic, plock, condq, wpc, warg, sarg, nsig, sigLog>>
    /\ UNCHANGED <<tileVars, frameVars, bitVars, fnVars>>

\* picture.c:188
SignalBroadcast ==
    /\ spc = "bcast"
    /\ condq' = condq \ Broadcast(condq)
    /\ wpc' = [w \in Waiters |-> IF w \in Broadcast(condq) THEN "lock" ELSE wpc[w]]
    /\ spc' = "unlock"
    /\ UNCHANGED <<pic, progress, plock, warg, sarg, nsig, sigLog>>
    /\ UNCHANGED <<tileVars, frameVars, bitVars, fnVars>>

\* picture.c:189-190
SignalUnlock ==
    /\ spc = "unlock"
    /\ plock' = IF plock = SigOwner THEN 0 ELSE plock
    /\ spc' = "idle"
    /\ UNCHANGED <<pic, progress, condq, wpc, warg, sarg, nsig, sigLog>>
    /\ UNCHANGED <<tileVars, frameVars, bitVars, fnVars>>

(***************************************************************************)
(* src/decode.c: decode_frame, the tile-threaded pass loop (n_tc > 1),     *)
(* lines 2530-2641, with the tile workers that consume its tasks.          *)
(***************************************************************************)
\* f->n_tc of the frames of the tile-threaded model
TileThreadCounts == {2}

RECURSIVE SortedSeq(_)
SortedSeq(S) ==
    IF S = {} THEN <<>>
    ELSE LET m == CHOOSE x \in S : \A y \in S : x <= y
         IN <<m>> \o SortedSeq(S \ {m})

\* tiling.row_start_sb: 0 = rs[1] < ... < rs[rows+1] = sbh
RowStartSbs ==
    { SortedSeq({0, sbh} \cup cut) :
        <<sbh, cut>> \in { x \in (1..MaxSbRows) \X SUBSET (1..MaxSbRows) :
                             \A k \in x[2] : k < x[1] } }

TRows(g) == Len(g.rs) - 1
TSbh(g) == g.rs[Len(g.rs)]
NTiles(g) == g.cols * TRows(g)
TileRowOf(g, tile) == tile \div g.cols
\* row_start_sb[tile_row], tile_row counted from 0
RowStart(g, tile_row) == g.rs[tile_row + 1]

\* decode.c:2252-2266, task_idx_to_sby_and_tile_idx, as a sequence of <<sby, tile_idx>>
RECURSIVE TaskTableFrom(_, _, _, _)
TaskTableFrom(g, tile_row, sby, tile_col) ==
    IF tile_row >= TRows(g) THEN <<>>
    ELSE IF sby >= RowStart(g, tile_row + 1)
      THEN IF tile_row + 1 < TRows(g)
             THEN TaskTableFrom(g, tile_row + 1, RowStart(g, tile_row + 1), 0)
             ELSE <<>>
    ELSE IF tile_col >= g.cols THEN TaskTableFrom(g, tile_row, sby + 1, 0)
    ELSE <<(<<sby, tile_row * g.cols + tile_col>>)>>
            \o TaskTableFrom(g, tile_row, sby, tile_col + 1)

TaskTable(g) == TaskTableFrom(g, 0, 0, 0)

\* decode.c:2576: whole tiles are handed out, not single superblock rows
FullTileTasks(g, pass) == pass = 1 \/ g.n_tc >= g.cols

\* decode.c:2576-2585
NumTasks(g, pass) ==
    IF FullTileTasks(g, pass) THEN g.cols * TRows(g) ELSE TSbh(g) * g.cols

\* decode.c:2601 and 2603: the driver has to wait for this tile
DrvMustWaitMutant(p, sby) == p < sby
DrvMustWait(p, sby) == p <= sby

\* decode.c:2057-2058, setup_tile: atomic_init(&ts->progress, row_sb_start)
SetupProgress(g) == [tile \in 0..(NTiles(g) - 1) |-> RowStart(g, TileRowOf(g, tile))]

\* decode.c:2627-2640: after pass 1 every tile's progress is reset
ResetProgress(g) == [tile \in 0..(NTiles(g) - 1) |-> 0]

\* decode.c:2530-2532, the passes of the frame: 0, or 1 then 2
FirstPass(g) == IF g.two_pass THEN 1 ELSE 0
LastPass(g) == IF g.two_pass THEN 2 ELSE 0

Workers(g) == 1..g.n_tc
DrvOwner == 0 - 1
DTile == dpos.row * tgeom.cols + dpos.col

IdleWk == [pc |-> "idle", tile |-> 0, sby |-> 0, last |-> 0]

TileInit ==
    /\ tgeom \in [cols : 1..MaxTileCols, rs : RowStartSbs,
                  n_tc : TileThreadCounts, two_pass : BOOLEAN]
    /\ tpass = FirstPass(tgeom)
    /\ tprog = SetupProgress(tgeom)
    /\ tpub = [tile \in 0..(NTiles(tgeom) - 1) |-> 0]
    /\ tlock = [tile \in 0..(NTiles(tgeom) - 1) |-> 0]
    /\ num_tasks = 0
    /\ tasks_left = 0
    /\ dpc = "dispatch"
    /\ dpos = [row |-> 0, sby |-> 0, col |-> 0]
    /\ wk = [w \in Workers(tgeom) |-> IdleWk]

\* the tile part at rest, for the specifications of the other parts
TileOff ==
    /\ tgeom = [cols |-> 1, rs |-> <<0, 1>>, n_tc |-> 1, two_pass |-> FALSE]
    /\ tpass = 0
    /\ tprog = <<>>
    /\ tpub = <<>>
    /\ tlock = <<>>
    /\ num_tasks = 0
    /\ tasks_left = 0
    /\ dpc = "off"
    /\ dpos = [row |-> 0, sby |-> 0, col |-> 0]
    /\ wk = <<>>

\* decode.c:2571-2588: wait until every worker is available, hand out the tasks
DrvDispatch ==
    /\ dpc = "dispatch"
    /\ \A w \in Workers(tgeom) : wk[w].pc = "idle"
    /\ tasks_left = 0
    /\ num_tasks' = NumTasks(tgeom, tpass)
    /\ tasks_left' = NumTasks(tgeom, tpass)
    /\ tpub' = [tile \in DOMAIN tpub |-> 0]
    /\ dpos' = [row |-> 0, sby |-> RowStart(tgeom, 0), col |-> 0]
    /\ dpc' = "fast"
    /\ UNCHANGED <<tgeom, tpass, tprog, tlock, wk>>
    /\ UNCHANGED <<picVars, frameVars, bitVars, fnVars>>

\* the driver is done with column dpos.col of row dpos.sby (decode.c:2595-2608)
DrvNextCol ==
    IF dpos.col + 1 < tgeom.cols
      THEN dpos' = [dpos EXCEPT !.col = dpos.col + 1] /\ dpc' = "fast"
      ELSE dpos' = dpos /\ dpc' = "filter"

\* decode.c:2601: the lock-free test
DrvFast ==
    /\ dpc = "fast"
    /\ IF DrvMustWait(tprog[DTile], dpos.sby)
         THEN dpc' = "lock" /\ dpos' = dpos
         ELSE DrvNextCol
    /\ UNCHANGED <<tgeom, tpass, tprog, tpub, tlock, num_tasks, tasks_left, wk>>
    /\ UNCHANGED <<picVars, frameVars, bitVars, fnVars>>

\* decode.c:2602, and the re-acquisition inside pthread_cond_wait
DrvLock ==
    /\ dpc = "lock"
    /\ tlock[DTile] = 0
    /\ tlock' = [tlock EXCEPT ![DTile] = DrvOwner]
    /\ dpc' = "loop"
    /\ UNCHANGED <<tgeom, tpass, tprog, tpub, num_tasks, tasks_left, dpos, wk>>
    /\ UNCHANGED <<picVars, frameVars, bitVars, fnVars>>

\* decode.c:2603-2606: the loop test under the lock; sleep, or unlock and go on
DrvLoop ==
    /\ dpc = "loop"
    /\ tlock' = [tlock EXCEPT ![DTile] = 0]
    /\ IF DrvMustWait(tprog[DTile], dpos.sby)
         THEN dpc' = "sleep" /\ dpos' = dpos
         ELSE DrvNextCol
    /\ UNCHANGED <<tgeom, tpass, tprog, tpub, num_tasks, tasks_left, wk>>
    /\ UNCHANGED <<picVars, frameVars, bitVars, fnVars>>

\* decode.c:2610-2612: loopfilter + cdef + restoration of row dpos.sby
DrvFilter ==
    /\ dpc = "filter"
    /\ dpc' = "signal"
    /\ UNCHANGED <<tgeom, tpass, tprog, tpub, tlock, num_tasks, tasks_left, dpos, wk>>
    /\ UNCHANGED <<picVars, frameVars, bitVars, fnVars>>

\* decode.c:2613-2616: signal the picture's progress, go on to the next row
DrvSignal ==
    /\ dpc = "signal"
    /\ IF dpos.sby + 1 < RowStart(tgeom, dpos.row + 1)
         THEN dpos' = [row |-> dpos.row, sby |-> dpos.sby + 1, col |-> 0] /\ dpc' = "fast"
       ELSE IF dpos.row + 1 < TRows(tgeom)
         THEN /\ dpos' = [row |-> dpos.row + 1,
                          sby |-> RowStart(tgeom, dpos.row + 1), col |-> 0]
              /\ dpc' = "fast"
       ELSE dpos' = dpos /\ dpc' = "endpass"
    /\ UNCHANGED <<tgeom, tpass, tprog, tpub, tlock, num_tasks, tasks_left, wk>>
    /\ UNCHANGED <<picVars, frameVars, bitVars, fnVars>>

\* decode.c:2619-2641: the end of a pass (cdf update, progress reset, pass++)
DrvEndPass ==
    /\ dpc = "endpass"
    /\ tprog' = IF tpass = 1 THEN ResetProgress(tgeom) ELSE tprog
    /\ tpass' = tpass + 1
    /\ dpc' = IF tpass + 1 <= LastPass(tgeom) THEN "dispatch" ELSE "done"
    /\ UNCHANGED <<tgeom, tpub, tlock, num_tasks, tasks_left, dpos, wk>>
    /\ UNCHANGED <<picVars, frameVars, bitVars, fnVars>>

\* A tile worker takes the next task: a whole tile, or one superblock row of
\* one tile (task_idx_to_sby_and_tile_idx).
WkTake(w) ==
    /\ wk[w].pc = "idle"
    /\ tasks_left > 0
    /\ LET task_idx == num_tasks - tasks_left
       IN wk' = [wk EXCEPT ![w] =
                   IF FullTileTasks(tgeom, tpass)
                     THEN [pc |-> "lock", tile |-> task_idx,
                           sby |-> RowStart(tgeom, TileRowOf(tgeom, task_idx)),
                           last |-> RowStart(tgeom, TileRowOf(tgeom, task_idx) + 1) - 1]
                     ELSE [pc |-> "order", tile |-> TaskTable(tgeom)[task_idx + 1][2],
                           sby |-> TaskTable(tgeom)[task_idx + 1][1],
                           last |-> TaskTable(tgeom)[task_idx + 1][1]]]
    /\ tasks_left' = tasks_left - 1
    /\ UNCHANGED <<tgeom, tpass, tprog, tpub, tlock, num_tasks, dpc, dpos>>
    /\ UNCHANGED <<picVars, frameVars, bitVars, fnVars>>

\* A worker with a single-row task waits until the rows above it in the tile
\* are parsed.
WkOrder(w) ==
    /\ wk[w].pc = "order"
    /\ tprog[wk[w].tile] >= wk[w].sby
    /\ wk' = [wk EXCEPT ![w].pc = "lock"]
    /\ UNCHANGED <<tgeom, tpass, tprog, tpub, tlock, num_tasks, tasks_left, dpc, dpos>>
    /\ UNCHANGED <<picVars, frameVars, bitVars, fnVars>>

\* The worker has run decode_tile_sbrow on its row and takes the tile's lock.
WkLock(w) ==
    /\ wk[w].pc = "lock"
    /\ tlock[wk[w].tile] = 0
    /\ tlock' = [tlock EXCEPT ![wk[w].tile] = w]
    /\ wk' = [wk EXCEPT ![w].pc = "store"]
    /\ UNCHANGED <<tgeom, tpass, tprog, tpub, num_tasks, tasks_left, dpc, dpos>>
    /\ UNCHANGED <<picVars, frameVars, bitVars, fnVars>>

\* The worker publishes the tile's progress (1 + sby), wakes the driver and
\* unlocks; then goes on to its next row, or is available again.
WkStore(w) ==
    /\ wk[w].pc = "store"
    /\ tprog' = [tprog EXCEPT ![wk[w].tile] = wk[w].sby + 1]
    /\ tpub' = [tpub EXCEPT ![wk[w].tile] = imax(@, wk[w].sby + 1)]
    /\ tlock' = [tlock EXCEPT ![wk[w].tile] = 0]
    /\ dpc' = IF dpc = "sleep" /\ DTile = wk[w].tile THEN "lock" ELSE dpc
    /\ wk' = [wk EXCEPT ![w] =
                IF wk[w].sby < wk[w].last
                  THEN [@ EXCEPT !.pc = "lock", !.sby = @ + 1]
                  ELSE IdleWk]
    /\ UNCHANGED <<tgeom, tpass, num_tasks, tasks_left, dpos>>
    /\ UNCHANGED <<picVars, frameVars, bitVars, fnVars>>

TileNext ==
    \/ DrvDispatch
    \/ DrvFast
    \/ DrvLock
    \/ DrvLoop
    \/ DrvFilter
    \/ DrvSignal
    \/ DrvEndPass
    \/ \E w \in Workers(tgeom) : WkTake(w)
    \/ \E w \in Workers(tgeom) : WkOrder(w)
    \/ \E w \in Workers(tgeom) : WkLock(w)
    \/ \E w \in Workers(tgeom) : WkStore(w)

(***************************************************************************)
(* The specifications.                                                     *)
(***************************************************************************)
(* src/decode.c: the partition walker, decode_sb / decode_b, and the tile   *)
(* row driver decode_tile_sbrow, as functions of the symbols the range      *)
(* coder hands out.                                                         *)
(***************************************************************************)
\* enum BlockLevel: BL_128X128 = 0, BL_64X64, BL_32X32, BL_16X16, BL_8X8
BL_128X128 == 0
BL_64X64 == 1
BL_8X8 == 4

\* enum BlockPartition, in the order of the symbols of the partition cdf
BlockPartitions ==
    << "PARTITION_NONE", "PARTITION_H", "PARTITION_V", "PARTITION_SPLIT",
       "PARTITION_T_TOP_SPLIT", "PARTITION_T_BOTTOM_SPLIT",
       "PARTITION_T_LEFT_SPLIT", "PARTITION_T_RIGHT_SPLIT",
       "PARTITION_H4", "PARTITION_V4" >>

\* The walker's state: the return value so far, the symbols the range coder
\* has left (a raw number per decoded symbol), the bd_fn hooks and range
\* coder reads made, the block records written to f->frame_thread.b, and the
\* blocks handed to decode_b.
WalkStart(s, b) == [ret |-> 0, s |-> s, calls |-> {}, b |-> b, blocks |-> <<>>]

\* the next raw symbol of the range coder (an exhausted payload decodes zeros)
MsacRaw(st) == IF st.s = <<>> THEN 0 ELSE Head(st.s)

\* one msac_decode_* call
MsacDecode(st) ==
    [st EXCEPT !.s = IF st.s = <<>> THEN <<>> ELSE Tail(st.s),
               !.calls = @ \cup {"msac"}]

\* f->frame_thread.b[by * b4_stride + bx]
BlockAt(b, by, bx) == CHOOSE r \in b : r.by = by /\ r.bx = bx

\* decode.c:912-926, the intra decision of a parsed block
BlockIntra(env, raw) ==
    IF env.inter \/ env.allow_intrabc THEN raw % 2 = 0 ELSE TRUE

\* decode.c:1084-1087, 1189-1192, 1674-1677: what a parsed block does with
\* its coefficients
ParseHookSwapped(pass, intra) ==
    IF pass # 1 THEN "read_coef_blocks"
    ELSE IF intra THEN "recon_b_intra" ELSE "recon_b_inter"

ParseHook(pass, intra) ==
    IF pass = 1 THEN "read_coef_blocks"
    ELSE IF intra THEN "recon_b_intra" ELSE "recon_b_inter"

\* decode.c:668-1751, decode_b at (bx, by): in pass 2 the block record is
\* replayed into the reconstruction hooks; otherwise the block is parsed,
\* its record written (passes 1 and 2 share f->frame_thread.b, pass 0 uses a
\* local) and its coefficients read or reconstructed.
decode_b(st, env, bl, bp, bx, by) ==
    IF env.pass = 2
    THEN LET r == BlockAt(env.b, by, bx) IN
         [st EXCEPT !.calls = @ \cup {IF r.intra THEN "recon_b_intra"
                                      ELSE "recon_b_inter"},
                    !.blocks = Append(@, <<bl, bp, bx, by>>)]
    ELSE LET intra == BlockIntra(env, MsacRaw(st))
             st1 == MsacDecode(st)
             rec == [by |-> by, bx |-> bx, bl |-> bl, bp |-> bp, intra |-> intra]
         IN [st1 EXCEPT
               !.calls = @ \cup {ParseHook(env.pass, intra)},
               !.b = IF env.pass = 0 THEN @
                     ELSE {r \in @ : ~(r.by = by /\ r.bx = bx)} \cup {rec},
               !.blocks = Append(@, <<bl, bp, bx, by>>)]

\* a walker that also decodes the second half of the partition
DecodeBothHalves(st, env, bl, bp, ps) ==
    LET hsz == 16 \div (2 ^ bl)
        bx == Head(ps)[1]
        by == Head(ps)[2]
        first == decode_b(st, env, bl, bp, bx, by)
    IN IF bp = "PARTITION_V" THEN decode_b(first, env, bl, bp, bx + hsz, by)
       ELSE decode_b(first, env, bl, bp, bx, by + hsz)

RECURSIVE DecodeBlocks(_, _, _, _, _)
\* decode_b on each position of ps, in order
DecodeBlocks(st, env, bl, bp, ps) ==
    IF ps = <<>> THEN st
    ELSE DecodeBlocks(decode_b(st, env, bl, bp, Head(ps)[1], Head(ps)[2]),
                      env, bl, bp, Tail(ps))

\* decode.c:1800-1929, the positions <<bx, by>> of the blocks of a partition
PartitionBlocks(env, bp, bx, by, hsz) ==
    LET q == hsz \div 2 IN
    CASE bp = "PARTITION_NONE" -> << <<bx, by>> >>
      [] bp = "PARTITION_H" -> << <<bx, by>>, <<bx, by + hsz>> >>
      [] bp = "PARTITION_V" -> << <<bx, by>>, <<bx + hsz, by>> >>
      [] bp = "PARTITION_SPLIT" ->
            << <<bx, by>>, <<bx + 1, by>>, <<bx, by + 1>>, <<bx + 1, by + 1>> >>
      [] bp = "PARTITION_T_TOP_SPLIT" ->
            << <<bx, by>>, <<bx + hsz, by>>, <<bx, by + hsz>> >>
      [] bp = "PARTITION_T_BOTTOM_SPLIT" ->
            << <<bx, by>>, <<bx, by + hsz>>, <<bx + hsz, by + hsz>> >>
      [] bp = "PARTITION_T_LEFT_SPLIT" ->
            << <<bx, by>>, <<bx, by + hsz>>, <<bx + hsz, by>> >>
      [] bp = "PARTITION_T_RIGHT_SPLIT" ->
            << <<bx, by>>, <<bx + hsz, by>>, <<bx + hsz, by + hsz>> >>
      [] bp = "PARTITION_H4" ->
            << <<bx, by>>, <<bx, by + q>>, <<bx, by + 2 * q>> >> \o
            (IF by + 3 * q < env.bh THEN << <<bx, by + 3 * q>> >> ELSE <<>>)
      [] bp = "PARTITION_V4" ->
            << <<bx, by>>, <<bx + q, by>>, <<bx + 2 * q, by>> >> \o
            (IF bx + 3 * q < env.bw THEN << <<bx + 3 * q, by>> >> ELSE <<>>)

RECURSIVE decode_sb(_, _, _, _, _)
RECURSIVE DecodeSubtrees(_, _, _, _)
\* decode_sb on each position of ps, in order, up to the first failure
DecodeSubtrees(st, env, bl, ps) ==
    IF ps = <<>> \/ st.ret # 0 THEN st
    ELSE DecodeSubtrees(decode_sb(st, env, bl, Head(ps)[1], Head(ps)[2]),
                        env, bl, Tail(ps))

\* decode.c:1753-1983, decode_sb at level bl with t->bx = bx, t->by = by
decode_sb(st, env, bl, bx, by) ==
    LET hsz == 16 \div (2 ^ bl)
        have_h_split == env.bw > bx + hsz
        have_v_split == env.bh > by + hsz
        parsing == env.pass # 2
        st1 == IF parsing THEN MsacDecode(st) ELSE st
        \* decode.c:1784-1785, the number of symbols of the partition cdf
        n_part == IF bl = BL_8X8 THEN 4
                  ELSE IF bl = BL_128X128 THEN Len(BlockPartitions) - 2
                  ELSE Len(BlockPartitions)
    IN
    IF ~have_h_split /\ ~have_v_split
    THEN decode_sb(st, env, bl + 1, bx, by)
    ELSE IF have_h_split /\ have_v_split
    THEN LET bp == IF parsing
                   THEN BlockPartitions[(MsacRaw(st) % n_part) + 1]
                   ELSE LET r == BlockAt(env.b, by, bx) IN
                        IF r.bl = bl THEN r.bp ELSE "PARTITION_SPLIT"
         IN IF /\ parsing /\ env.layout = "I422"
               /\ bp \in {"PARTITION_V", "PARTITION_V4",
                           "PARTITION_T_LEFT_SPLIT", "PARTITION_T_RIGHT_SPLIT"}
            THEN [st1 EXCEPT !.ret = 1]
            ELSE IF bp = "PARTITION_SPLIT" /\ bl # BL_8X8
            THEN DecodeSubtrees(st1, env, bl + 1,
                     << <<bx, by>>, <<bx + hsz, by>>,
                        <<bx, by + hsz>>, <<bx + hsz, by + hsz>> >>)
            ELSE DecodeBlocks(st1, env, bl, bp,
                              PartitionBlocks(env, bp, bx, by, hsz))
    ELSE LET is_split == IF parsing THEN MsacRaw(st) % 2 = 1
                         ELSE BlockAt(env.b, by, bx).bl # bl
         IN IF have_h_split
            THEN IF is_split
                 THEN DecodeSubtrees(st1, env, bl + 1,
                                     << <<bx, by>>, <<bx + hsz, by>> >>)
                 ELSE DecodeBlocks(st1, env, bl, "PARTITION_H", << <<bx, by>> >>)
            ELSE IF parsing /\ env.layout = "I422" /\ ~is_split
                 THEN [st1 EXCEPT !.ret = 1]
                 ELSE IF is_split
                 THEN DecodeSubtrees(st1, env, bl + 1,
                                     << <<bx, by>>, <<bx, by + hsz>> >>)
                 ELSE DecodeBlocks(st1, env, bl, "PARTITION_V", << <<bx, by>> >>)

RECURSIVE SbRow(_, _, _, _, _, _, _)
\* decode.c:2072-2080 and 2098-2217: decode_sb on the superblocks of the tile
\* row, from bx up to col_end, up to the first failure
SbRow(st, env, root_bl, bx, by, col_end, sb_step) ==
    IF bx >= col_end \/ st.ret # 0 THEN st
    ELSE SbRow(decode_sb(st, env, root_bl, bx, by),
               env, root_bl, bx + sb_step, by, col_end, sb_step)

\* decode.c:2061-2236, decode_tile_sbrow for the tile columns col_start to
\* col_end (in 4-pixel units) at row by
decode_tile_sbrow(st, env, sb128, col_start, col_end, by) ==
    LET root_bl == IF sb128 = 1 THEN BL_128X128 ELSE BL_64X64
        sb_step == 16 * (2 ^ sb128)
        r == SbRow(st, env, root_bl, col_start, by, col_end, sb_step)
    IN IF r.ret # 0 THEN r
       ELSE IF env.pass = 2 \/ env.pass # 1
       THEN [r EXCEPT !.calls = @ \cup {"backup_ipred_edge"}]
       ELSE r

(***************************************************************************)
(* src/decode.c: submit_frame and decode_frame (n_tc == 1), with the frame  *)
(* threads that run decode_frame when n_fc > 1.                             *)
(***************************************************************************)
\* errno values of the failing returns
ENOMEM == 12
EINVAL == 22
ENOPROTOOPT == 92

PRIMARY_REF_NONE == 7

\* the frames (and so the pictures, segmaps and motion vector buffers) of a
\* run are numbered from 1; frame k allocates cdf 2k-1 (in) and 2k (out)
Frames == 1 .. (MaxFrames + 2)
CdfIds == 1 .. (2 * (MaxFrames + 2))
InCdfId(k) == 2 * k - 1
OutCdfId(k) == 2 * k

RefSlots == 0 .. 7
RefNames == 1 .. 7

\* ---------------------------------------------------------------- inputs
\* frame_hdr.tiling: one tile, two tile rows, two by two tiles, two rows of
\* three tiles (the tile numbers of a row are 2^log2_cols apart)
Tiling ==
    [one |->
       [cols |-> 1, rows |-> 1, log2_cols |-> 0, col_start_sb |-> <<0, 1>>,
        row_start_sb |-> <<0, 1>>, update |-> 0, n_bytes |-> 1],
     rows2 |->
       [cols |-> 1, rows |-> 2, log2_cols |-> 0, col_start_sb |-> <<0, 1>>,
        row_start_sb |-> <<0, 1, 2>>, update |-> 1, n_bytes |-> 1],
     grid4 |->
       [cols |-> 2, rows |-> 2, log2_cols |-> 1, col_start_sb |-> <<0, 1, 2>>,
        row_start_sb |-> <<0, 1, 2>>, update |-> 3, n_bytes |-> 1],
     cols3 |->
       [cols |-> 3, rows |-> 2, log2_cols |-> 2,
        col_start_sb |-> <<0, 1, 2, 3>>,
        row_start_sb |-> <<0, 1, 2>>, update |-> 4, n_bytes |-> 1]]

\* frame_hdr.segmentation: off, a new map, a new map predicted from the
\* primary reference's, and the previous map kept
Seg ==
    [off |-> [enabled |-> FALSE, update_map |-> FALSE, temporal |-> FALSE],
     update |-> [enabled |-> TRUE, update_map |-> TRUE, temporal |-> FALSE],
     temporal |-> [enabled |-> TRUE, update_map |-> TRUE, temporal |-> TRUE],
     keep |-> [enabled |-> TRUE, update_map |-> FALSE, temporal |-> FALSE]]

\* a key frame that refreshes every slot, and an inter frame on top of it
KeyHdr ==
    [id |-> 0, bpc |-> 8, layout |-> "I420", sb128 |-> 0,
     width |-> 64, height |-> 64, inter |-> FALSE,
     refidx |-> <<0, 0, 0, 0, 0, 0, 0>>,
     primary_ref_frame |-> PRIMARY_REF_NONE,
     refresh_frame_flags |-> 255, refresh_context |-> TRUE,
     allow_intrabc |-> FALSE, use_ref_frame_mvs |-> FALSE,
     seg |-> Seg.off, show_frame |-> TRUE, tiling |-> Tiling.one]

InterHdr ==
    [KeyHdr EXCEPT !.inter = TRUE, !.primary_ref_frame = 0,
                   !.refresh_frame_flags = 6, !.use_ref_frame_mvs = TRUE,
                   !.refidx = <<0, 1, 0, 1, 0, 1, 0>>]

\* the headers of the single-threaded and of the frame-threaded runs
FrameHdrs(n_fc) ==
    IF n_fc = 1 THEN
    { KeyHdr,
      [KeyHdr EXCEPT !.layout = "I422"],
      [KeyHdr EXCEPT !.bpc = 12],
      [KeyHdr EXCEPT !.refresh_frame_flags = 1, !.show_frame = FALSE],
      [KeyHdr EXCEPT !.refresh_context = FALSE, !.seg = Seg.update],
      [KeyHdr EXCEPT !.allow_intrabc = TRUE],
      [KeyHdr EXCEPT !.width = 128, !.height = 128, !.tiling = Tiling.grid4],
      [KeyHdr EXCEPT !.width = 192, !.height = 128, !.tiling = Tiling.cols3],
      InterHdr,
      [InterHdr EXCEPT !.primary_ref_frame = PRIMARY_REF_NONE,
                       !.refresh_frame_flags = 255],
      [InterHdr EXCEPT !.use_ref_frame_mvs = FALSE, !.refresh_context = FALSE],
      [InterHdr EXCEPT !.seg = Seg.temporal],
      [InterHdr EXCEPT !.seg = Seg.keep, !.refresh_frame_flags = 0],
      [InterHdr EXCEPT !.layout = "I422", !.seg = Seg.update] }
    ELSE IF n_fc = 2 THEN
    { [KeyHdr EXCEPT !.height = 128, !.tiling = Tiling.rows2],
      [KeyHdr EXCEPT !.layout = "I422"],
      [InterHdr EXCEPT !.refresh_context = FALSE] }
    ELSE
    { KeyHdr, InterHdr }

\* c->tile[]: the tile groups of a frame, each with its first and last tile,
\* its payload size and the tile size fields coded in front of every tile
\* but the last
TileGroups(tiling) ==
    IF tiling.cols * tiling.rows = 1
    THEN { << [start |-> 0, end |-> 0, sz |-> 10, coded |-> <<>>] >> }
    ELSE IF tiling.cols * tiling.rows = 2
    THEN { << [start |-> 0, end |-> 1, sz |-> 20, coded |-> <<8>>] >> }
    ELSE IF tiling.cols * tiling.rows = 6
    THEN { << [start |-> 0, end |-> 7, sz |-> 60,
               coded |-> <<8, 8, 8, 8, 8, 8>>] >> }
    ELSE { << [start |-> 0, end |-> 3, sz |-> 40, coded |-> <<8, 8, 8>>] >>,
           << [start |-> 0, end |-> 1, sz |-> 20, coded |-> <<8>>],
              [start |-> 2, end |-> 3, sz |-> 20, coded |-> <<30>>] >> }

\* the symbols the range coder hands to one decode_tile_sbrow call
Streams(n_fc) ==
    IF n_fc = 1 THEN { <<0>>, <<2>>, <<1, 1>>, <<3, 1>> } ELSE { <<2>>, <<1, 1>> }

\* ------------------------------------------------------------- geometry
\* decode.c:2796-2803
Bw(h) == ((h.width + 7) \div 8) * 2
Bh(h) == ((h.height + 7) \div 8) * 2
Sb128w(h) == (Bw(h) + 31) \div 32
Sb128h(h) == (Bh(h) + 31) \div 32
SbShift(h) == 4 + h.sb128
SbStep(h) == 16 * (2 ^ h.sb128)
Sbh(h) == (Bh(h) + SbStep(h) - 1) \div (2 ^ SbShift(h))

\* decode.c:2530
Uses2Pass(n_fc, h) == n_fc > 1 /\ h.refresh_context

\* ------------------------------------------------- handles and counters
\* dav1d_ref_inc / dav1d_ref_dec (src/ref.c) on object id of a kind; a NULL
\* handle (0) is never passed
RefInc(r, kind, id) == [r EXCEPT ![kind][id] = @ + 1]
RefDec(r, kind, id) == [r EXCEPT ![kind][id] = @ - 1]

\* the guarded forms: if (ref) dav1d_ref_inc(ref) / dav1d_ref_dec(ref)
RefIncIfSkipped(r, kind, id) == r
RefIncIf(r, kind, id) == IF id = 0 THEN r ELSE RefInc(r, kind, id)
RefDecIf(r, kind, id) == IF id = 0 THEN r ELSE RefDec(r, kind, id)

RECURSIVE RefIncAll(_, _, _)
RefIncAll(r, kind, ids) ==
    IF ids = <<>> THEN r
    ELSE RefIncAll(RefIncIf(r, kind, Head(ids)), kind, Tail(ids))

RECURSIVE RefDecAll(_, _, _)
RefDecAll(r, kind, ids) ==
    IF ids = <<>> THEN r
    ELSE RefDecAll(RefDecIf(r, kind, Head(ids)), kind, Tail(ids))

NoPic == [w |-> 0, h |-> 0, layout |-> "I420", t |-> 0, visible |-> FALSE,
          prog |-> <<0, 0>>]

NoCdf == [t |-> 0, sig |-> FALSE, upd |-> 0 - 1]

NoFrame ==
    [pc |-> "idle", res |-> 0, hdr |-> KeyHdr, tile |-> <<>>,
     n_tile_data |-> 0, tile_refs |-> 0,
     refp |-> [i \in RefNames |-> 0], ref_mvs_ref |-> [i \in RefNames |-> 0],
     cur |-> 0, cur_segmap_ref |-> 0, prev_segmap_ref |-> 0, mvs_ref |-> 0,
     in_cdf |-> 0, out_cdf |-> 0, sz |-> [n_ts |-> 0, a_sz |-> 0, line_sz |-> 0, mask_sz |-> 0,
             ipred_edge_sz |-> 0, re_sz |-> 0],
     pass |-> 0, tile_row |-> 0, sby |-> 0, tile_col |-> 0,
     ts |-> {}, update_set |-> FALSE, update_ts |-> 0 - 1, b |-> {},
     parsed |-> {}, cdf_pubs |-> 0, pub_pass |-> 0,
     sig_max |-> FALSE, cdf_sig |-> FALSE]

\* picture.c:152-168 on picture id: the wait returns at once
PicReady(id, y_unclipped, pt) ==
    \/ id = 0
    \/ pics[id].t = 0
    \/ pics[id].prog[WaitIdx(pt) + 1] >=
         WaitRow(y_unclipped, pt,
                 IF pics[id].layout = "I420" THEN 1 ELSE 0, pics[id].h)

\* picture.c:176-190 on picture id
PicSignal(ps, id, y, pt) ==
    IF id = 0 \/ ps[id].t = 0 THEN ps
    ELSE [ps EXCEPT ![id].prog =
            [i \in {1, 2} |-> IF (i - 1) \in SignalStores(pt)
                              THEN AsUint(y) ELSE @[i]]]

\* cdf_thread_wait (src/cdf.c) returns: the table has no producer thread, or
\* its producer has signalled it
CdfReady(id) == id = 0 \/ cdfs[id].t = 0 \/ cdfs[id].sig

\* every handle of a frame context that holds a counted reference
FrameHolds(F) ==
    {<<"refp", i>> : i \in {j \in RefNames : F.refp[j] # 0}} \cup
    {<<"ref_mvs_ref", i>> : i \in {j \in RefNames : F.ref_mvs_ref[j] # 0}} \cup
    (IF F.cur # 0 THEN {<<"cur", 0>>} ELSE {}) \cup
    (IF F.cur_segmap_ref # 0 THEN {<<"cur_segmap_ref", 0>>} ELSE {}) \cup
    (IF F.prev_segmap_ref # 0 THEN {<<"prev_segmap_ref", 0>>} ELSE {}) \cup
    (IF F.mvs_ref # 0 THEN {<<"mvs_ref", 0>>} ELSE {}) \cup
    (IF F.tile_refs # 0 THEN {<<"tile", 0>>} ELSE {})

\* ------------------------------------------------------------ tile setup
RECURSIVE SetupTilesFrom(_, _, _, _, _, _)
\* decode.c:2489-2515, the j loop over the tiles of group g with size bytes
\* of payload left; acc is [err, ts, update_set, update_ts]: the tile states
\* set up, and the one set up in the iteration that set update_set
SetupTilesFrom(h, refresh, g, j, size, acc) ==
    LET t == h.tiling
        cols2 == 2 ^ t.log2_cols
        last_tile_row_plus1 == 1 + (g.end \div cols2)
        last_tile_col_plus1 == 1 + (g.end % cols2)
        empty_tile_cols == imax(0, last_tile_col_plus1 - t.cols)
        empty_tile_rows == imax(0, last_tile_row_plus1 - t.rows)
        empty_tiles == empty_tile_rows * cols2 + empty_tile_cols
        last == g.end - empty_tiles
        tile_row == j \div cols2
        tile_col == j % cols2
        k == j - g.start + 1
        field == IF k <= Len(g.coded) THEN g.coded[k] ELSE 0
        tile_sz == IF j = last THEN size ELSE field + 1
        size1 == IF j = last THEN size ELSE AsUint(size - t.n_bytes)
        done == [acc EXCEPT !.ts = @ \cup {tile_row * t.cols + tile_col},
                            !.update_set = @ \/ (j = t.update /\ refresh),
                            !.update_ts = IF j = t.update /\ refresh
                                          THEN tile_row * t.cols + tile_col
                                          ELSE @]
    IN IF j > last THEN acc
       ELSE IF tile_col >= t.cols \/ tile_row >= t.rows
       THEN SetupTilesFrom(h, refresh, g, j + 1, size, acc)
       ELSE IF tile_sz > size1 THEN [acc EXCEPT !.err = TRUE]
       ELSE SetupTilesFrom(h, refresh, g, j + 1, AsUint(size1 - tile_sz), done)

RECURSIVE SetupTiles(_, _, _)
\* decode.c:2477-2516, the loop over the tile groups, up to the first error
SetupTiles(h, groups, acc) ==
    IF groups = <<>> \/ acc.err THEN acc
    ELSE LET g == Head(groups) IN
         SetupTiles(h, Tail(groups),
                    SetupTilesFrom(h, h.refresh_context, g, g.start, g.sz, acc))

\* -------------------------------------------------------- scratch buffers
\* decode.c:2273-2398, the checked allocations of decode_frame (n_tc == 1) in
\* program order: <<buffer, capacity field, size needed>>
ScratchSteps(h) ==
    << <<"ts", "n_ts", h.tiling.cols * h.tiling.rows>>,
       <<"a", "a_sz", Sb128w(h) * h.tiling.rows>>,
       <<"line", "line_sz", Sb128w(h)>>,
       <<"mask", "mask_sz", Sb128w(h) * Sb128h(h)>>,
       <<"ipred_edge", "ipred_edge_sz", Sbh(h) * Sb128w(h) * 128>>,
       <<"re", "re_sz", Sb128h(h)>> >>

\* the allocations whose result decode_frame tests
CheckedScratch == {"ts", "a", "mask", "ipred_edge", "re"}

\* the allocations that are let to fail in a run
FailingScratch(n_fc) == IF n_fc = 1 THEN CheckedScratch ELSE {}

\* the buffers that have to grow for this frame
ScratchGrows(sz, h) ==
    {ScratchSteps(h)[k][1] : k \in {i \in 1 .. Len(ScratchSteps(h)) :
                                    ScratchSteps(h)[i][3] > sz[ScratchSteps(h)[i][2]]}}

RECURSIVE ScratchAfter(_, _, _, _)
\* the capacities after the allocations from step k on, when the allocation
\* of buffer fail ("none": no allocation fails) returns NULL
ScratchAfter(sz, h, k, fail) ==
    IF k > Len(ScratchSteps(h)) THEN sz
    ELSE LET st == ScratchSteps(h)[k] IN
         IF st[3] > sz[st[2]]
         THEN IF st[1] = fail THEN sz
              ELSE ScratchAfter([sz EXCEPT ![st[2]] = st[3]], h, k + 1, fail)
         ELSE ScratchAfter(sz, h, k + 1, fail)

\* ------------------------------------------------- submit_frame, by parts
\* Each part takes and returns the world W = [c, F, rc, pics, cdfs, out, res]:
\* the context, the frame context of the call, the reference counts, the
\* pictures and cdf tables, and how the part ended ("ok", "fail": return res,
\* "crash": the process is gone).
PicOf(W, id) == IF id = 0 THEN NoPic ELSE W.pics[id]

\* decode.c:2747-2751 with picture.c:113-133: dav1d_thread_picture_ref into
\* f->refp[i]; a handle that is still in use fails validate_input and is
\* left as it is
TakeRefs(W, h) ==
    IF ~h.inter THEN W
    ELSE LET src == [i \in RefNames |->
                       IF W.F.refp[i] = 0 THEN W.c.refs[h.refidx[i]].p ELSE 0]
         IN [W EXCEPT !.F.refp = [i \in RefNames |->
                                    IF @[i] = 0 THEN src[i] ELSE @[i]],
                      !.rc = RefIncAll(@, "pic", src)]

\* decode.c:2753-2763: in_cdf is a table of baseline constants
\* (av1_init_states) or the primary reference's; out_cdf starts as its copy
SetupEntropy(W, h, t) ==
    LET in_id == IF h.primary_ref_frame = PRIMARY_REF_NONE THEN InCdfId(h.id)
                 ELSE W.c.cdf[h.refidx[h.primary_ref_frame + 1]]
        W1 == IF h.primary_ref_frame = PRIMARY_REF_NONE
              THEN [W EXCEPT !.cdfs[in_id] = NoCdf, !.rc.cdf[in_id] = 1,
                             !.F.in_cdf = in_id]
              ELSE [W EXCEPT !.rc = RefIncIf(@, "cdf", in_id),
                             !.F.in_cdf = in_id]
        out_id == OutCdfId(h.id)
    IN IF h.refresh_context
       THEN [W1 EXCEPT !.cdfs[out_id] = [t |-> t, sig |-> FALSE, upd |-> 0 - 1],
                       !.rc.cdf[out_id] = 1, !.F.out_cdf = out_id]
       ELSE W1

\* decode.c:2765-2768: the tile groups move from the context to the frame
CopyTiles(W) ==
    [W EXCEPT !.F.tile = W.c.tile, !.F.n_tile_data = W.c.n_tile_data,
              !.F.tile_refs = W.c.n_tile_data, !.c.n_tile_data = 0]

\* decode.c:2770-2778 with picture.c:44-111, dav1d_thread_picture_alloc of
\* f->cur: "Picture already allocated!" (-1) when f->cur is in use, and then
\* the progress counters it still points to are reset; -ENOMEM when the
\* buffer cannot be had, and then a thread-shared picture's counters are
\* written through a null pointer
AllocPicture(W, h, t, ok) ==
    IF W.F.cur # 0
    THEN [W EXCEPT !.out = "fail", !.res = 0 - 1,
                   !.pics = IF t # 0 THEN [@ EXCEPT ![W.F.cur].prog = <<0, 0>>]
                            ELSE @]
    ELSE IF ~ok
    THEN IF t # 0 THEN [W EXCEPT !.out = "crash"]
         ELSE [W EXCEPT !.out = "fail", !.res = 0 - ENOMEM]
    ELSE [W EXCEPT !.F.cur = h.id, !.rc.pic[h.id] = 1,
                   !.pics[h.id] = [w |-> h.width, h |-> h.height,
                                   layout |-> h.layout, t |-> t,
                                   visible |-> h.show_frame, prog |-> <<0, 0>>]]

\* decode.c:2788-2794: the picture goes to c->out or to out_delayed[slot]
QueueOutput(W, h, s) ==
    IF W.c.n_fc = 1
    THEN IF h.show_frame /\ W.c.out = 0
         THEN [W EXCEPT !.c.out = W.F.cur, !.rc = RefInc(@, "pic", W.F.cur)]
         ELSE W
    ELSE IF W.c.out_delayed[s] = 0
         THEN [W EXCEPT !.c.out_delayed[s] = W.F.cur,
                        !.rc = RefInc(@, "pic", W.F.cur)]
         ELSE W

\* decode.c:2805-2834: the frame's motion vector buffer and those of its
\* references
SetupRefMvs(W, h) ==
    IF h.inter \/ h.allow_intrabc
    THEN LET cur == PicOf(W, W.F.cur)
             rm == [i \in RefNames |->
                      IF /\ h.use_ref_frame_mvs
                         /\ W.c.refs[h.refidx[i]].refmvs # 0
                         /\ PicOf(W, W.F.refp[i]).w = cur.w
                         /\ PicOf(W, W.F.refp[i]).h = cur.h
                      THEN W.c.refs[h.refidx[i]].refmvs ELSE 0]
         IN [W EXCEPT !.F.mvs_ref = h.id, !.F.ref_mvs_ref = rm,
                      !.rc = RefIncAll([@ EXCEPT !.mvs[h.id] = 1], "mvs", rm)]
    ELSE [W EXCEPT !.F.mvs_ref = 0, !.F.ref_mvs_ref = [i \in RefNames |-> 0]]

\* decode.c:2836-2867: the segmentation maps; dav1d_ref_inc of a null map
\* ends the process
SetupSegmap(W, h) ==
    IF ~h.seg.enabled
    THEN [W EXCEPT !.F.cur_segmap_ref = 0, !.F.prev_segmap_ref = 0]
    ELSE LET from_ref ==
                 /\ h.seg.temporal
                 /\ LET rp == PicOf(W, W.F.refp[h.primary_ref_frame + 1]) IN
                    (rp.w + 3) \div 4 = Bw(h) /\ (rp.h + 3) \div 4 = Bh(h)
             prev == IF from_ref
                     THEN W.c.refs[h.refidx[h.primary_ref_frame + 1]].segmap
                     ELSE 0
         IN IF (from_ref /\ prev = 0) \/ (~h.seg.update_map /\ prev = 0)
            THEN [W EXCEPT !.out = "crash"]
            ELSE LET W1 == [W EXCEPT !.F.prev_segmap_ref = prev,
                                     !.rc = RefIncIf(@, "seg", prev)]
                 IN IF h.seg.update_map
                    THEN [W1 EXCEPT !.F.cur_segmap_ref = h.id,
                                    !.rc.seg[h.id] = 1]
                    ELSE [W1 EXCEPT !.F.cur_segmap_ref = prev,
                                    !.rc = RefInc(@, "seg", prev)]

\* decode.c:2895-2901: the motion vector buffer a refreshed slot takes
SlotRefMvsAlways(allow_intrabc, mvs_ref) == mvs_ref
SlotRefMvs(allow_intrabc, mvs_ref) == IF allow_intrabc THEN 0 ELSE mvs_ref

\* decode.c:2876-2881: the cdf a refreshed slot takes
SlotCdf(h, F) == IF h.refresh_context THEN F.out_cdf ELSE F.in_cdf

RECURSIVE UpdateRefs(_, _, _)
\* decode.c:2869-2904, the reference update from slot i on
UpdateRefs(W, h, i) ==
    IF i > 7 THEN W
    ELSE IF (h.refresh_frame_flags \div (2 ^ i)) % 2 = 0 THEN UpdateRefs(W, h, i + 1)
    ELSE LET old == W.c.refs[i]
             F == W.F
             mvs == SlotRefMvs(h.allow_intrabc, F.mvs_ref)
             rc1 == RefIncIf(RefDecIf(W.rc, "pic", old.p), "pic", F.cur)
             rc2 == RefIncIf(RefDecIf(rc1, "cdf", W.c.cdf[i]), "cdf", SlotCdf(h, F))
             rc3 == RefIncIf(RefDecIf(rc2, "seg", old.segmap), "seg",
                             F.cur_segmap_ref)
             rc4 == RefIncIf(RefDecIf(rc3, "mvs", old.refmvs), "mvs", mvs)
         IN UpdateRefs(
              [W EXCEPT !.c.refs[i] = [p |-> F.cur, segmap |-> F.cur_segmap_ref,
                                       refmvs |-> mvs, gmv |-> h.id,
                                       film_grain |-> h.id],
                        !.c.cdf[i] = SlotCdf(h, F),
                        !.rc = rc4],
              h, i + 1)

\* decode.c:2683: the slot still has a frame in flight
SlotNeverBusy(n_tile_data) == FALSE
SlotBusy(n_tile_data) == n_tile_data > 0

\* decode.c:2679-2681
NextSlot(next, n_fc) == IF next + 1 = n_fc THEN 0 ELSE next + 1

\* the headers the bitstream parser (src/obu.c) can hand over in this state:
\* an inter frame's references and its primary reference's cdf exist
InputOk(h) ==
    /\ h.inter => \A i \in RefNames : c.refs[h.refidx[i]].p # 0
    /\ h.primary_ref_frame # PRIMARY_REF_NONE =>
         c.cdf[h.refidx[h.primary_ref_frame + 1]] # 0

Alive == sf.pc # "crashed"

\* --------------------------------------------------------------- actions
FrameInit(n) ==
    /\ c = [n_fc |-> n, next |-> 0, out |-> 0,
            refs |-> [i \in RefSlots |->
                       [p |-> 0, segmap |-> 0, refmvs |-> 0, gmv |-> 0,
                        film_grain |-> 0]],
            cdf |-> [i \in RefSlots |-> 0],
            out_delayed |-> [s \in 0 .. (n - 1) |-> 0],
            frame_hdr |-> KeyHdr, tile |-> <<>>, n_tile_data |-> 0]
    /\ f = [s \in 0 .. (n - 1) |-> NoFrame]
    /\ rc = [pic |-> [k \in Frames |-> 0], cdf |-> [k \in CdfIds |-> 0],
             seg |-> [k \in Frames |-> 0], mvs |-> [k \in Frames |-> 0]]
    /\ pics = [k \in Frames |-> NoPic]
    /\ cdfs = [k \in CdfIds |-> NoCdf]
    /\ sf = [pc |-> "idle", slot |-> 0, res |-> 0, ret |-> 0]
    /\ tdlock = [s \in 0 .. (n - 1) |-> 0]
    /\ calls = {}
    /\ nframes = 0

\* The bitstream parser has filled c->frame_hdr and c->tile[] and calls
\* submit_frame; decode.c:2678-2682 and 2695: the slot of the call.
SubmitCall ==
    /\ sf.pc \in {"idle", "ret"}
    /\ nframes < MaxFrames + c.n_fc - 1
    /\ c.out = 0
    /\ \E h0 \in FrameHdrs(c.n_fc) : \E g \in TileGroups(h0.tiling) :
         LET h == [h0 EXCEPT !.id = nframes + 1] IN
         /\ InputOk(h)
         /\ c' = [c EXCEPT !.frame_hdr = h, !.tile = g, !.n_tile_data = Len(g),
                           !.next = IF c.n_fc > 1 THEN NextSlot(@, c.n_fc) ELSE @]
    /\ nframes' = nframes + 1
    /\ sf' = [pc |-> IF c.n_fc > 1 THEN "enter" ELSE "setup",
              slot |-> IF c.n_fc > 1 THEN c.next ELSE 0, res |-> 0, ret |-> 0]
    /\ UNCHANGED <<f, rc, pics, cdfs, tdlock, calls>>
    /\ UNCHANGED <<picVars, tileVars, bitVars, fnVars>>

\* decode.c:2682-2693: take the slot's lock, wait until its frame is done,
\* hand the slot's delayed picture to c->out
SubmitEnter ==
    /\ sf.pc = "enter"
    /\ tdlock[sf.slot] = 0
    /\ ~SlotBusy(f[sf.slot].n_tile_data)
    /\ tdlock' = [tdlock EXCEPT ![sf.slot] = 1]
    /\ LET od == c.out_delayed[sf.slot] IN
       IF od = 0 THEN UNCHANGED <<c, rc>>
       ELSE IF pics[od].visible /\ c.out = 0
       THEN /\ c' = [c EXCEPT !.out = od, !.out_delayed[sf.slot] = 0]
            /\ UNCHANGED rc
       ELSE /\ c' = [c EXCEPT !.out_delayed[sf.slot] = 0]
            /\ rc' = RefDec(rc, "pic", od)
    /\ sf' = [sf EXCEPT !.pc = "setup"]
    /\ UNCHANGED <<f, pics, cdfs, calls, nframes>>
    /\ UNCHANGED <<picVars, tileVars, bitVars, fnVars>>

\* decode.c:2698-2867: the headers, the bit depth, the references, the
\* entropy tables, the tiles, the picture, the output queue, the motion
\* vector buffers and the segmentation maps of the new frame
SubmitSetup ==
    /\ sf.pc = "setup"
    /\ LET s == sf.slot
           h == c.frame_hdr
           t == IF c.n_fc > 1 THEN s + 1 ELSE 0
           W0 == [c |-> c, rc |-> rc, pics |-> pics, cdfs |-> cdfs,
                  out |-> "ok", res |-> 0,
                  F |-> [f[s] EXCEPT !.hdr = h, !.parsed = {}, !.cdf_pubs = 0,
                                     !.pub_pass = 0, !.sig_max = FALSE,
                                     !.cdf_sig = FALSE]]
           stale == h.inter /\ \E i \in RefNames : f[s].refp[i] # 0
       IN \E vo \in IF stale THEN {"return", "abort"} ELSE {"return"} :
          \E ok \in BOOLEAN :
            LET W1 == IF h.bpc \notin {8, 10}
                      THEN [W0 EXCEPT !.out = "fail", !.res = 0 - ENOPROTOOPT]
                      ELSE IF vo = "abort" THEN [W0 EXCEPT !.out = "crash"]
                      ELSE AllocPicture(CopyTiles(SetupEntropy(TakeRefs(W0, h), h, t)),
                                        h, t, ok)
                W2 == IF W1.out # "ok" THEN W1
                      ELSE SetupSegmap(SetupRefMvs(QueueOutput(W1, h, s), h), h)
            IN /\ c' = W2.c
               /\ f' = [f EXCEPT ![s] = W2.F]
               /\ rc' = W2.rc
               /\ pics' = W2.pics
               /\ cdfs' = W2.cdfs
               /\ sf' = [sf EXCEPT !.pc = CASE W2.out = "ok" -> "refs"
                                           [] W2.out = "fail" -> "ret"
                                           [] W2.out = "crash" -> "crashed",
                                   !.ret = W2.res]
    /\ UNCHANGED <<tdlock, calls, nframes>>
    /\ UNCHANGED <<picVars, tileVars, bitVars, fnVars>>

\* decode.c:2869-2904: update references etc.
SubmitUpdateRefs ==
    /\ sf.pc = "refs"
    /\ LET W == UpdateRefs([c |-> c, rc |-> rc, F |-> f[sf.slot]],
                           c.frame_hdr, 0)
       IN /\ c' = W.c
          /\ rc' = W.rc
    /\ sf' = [sf EXCEPT !.pc = "run"]
    /\ UNCHANGED <<f, pics, cdfs, tdlock, calls, nframes>>
    /\ UNCHANGED <<picVars, tileVars, bitVars, fnVars>>

\* decode.c:2906-2914: decode the frame in line (n_fc == 1), or wake the
\* slot's frame thread, release the lock and return 0
SubmitRun ==
    /\ sf.pc = "run"
    /\ IF c.n_fc = 1
       THEN /\ f' = [f EXCEPT ![sf.slot].pc = "alloc"]
            /\ sf' = [sf EXCEPT !.pc = "decoding"]
            /\ UNCHANGED tdlock
       ELSE /\ tdlock' = [tdlock EXCEPT ![sf.slot] = 0]
            /\ sf' = [sf EXCEPT !.pc = "ret", !.ret = 0]
            /\ UNCHANGED f
    /\ UNCHANGED <<c, rc, pics, cdfs, calls, nframes>>
    /\ UNCHANGED <<picVars, tileVars, bitVars, fnVars>>

\* decode.c:2907-2908 and 2914: if ((res = decode_frame(f)) < 0) return res;
\* return 0
SubmitDecoded ==
    /\ sf.pc = "decoding"
    /\ f[sf.slot].pc = "ret"
    /\ sf' = [sf EXCEPT !.pc = "ret", !.res = f[sf.slot].res,
                        !.ret = IF f[sf.slot].res < 0 THEN f[sf.slot].res
                                 ELSE 0]
    /\ f' = [f EXCEPT ![sf.slot].pc = "idle"]
    /\ UNCHANGED <<c, rc, pics, cdfs, tdlock, calls, nframes>>
    /\ UNCHANGED <<picVars, tileVars, bitVars, fnVars>>

\* The caller of the decoder takes the picture out of c->out.
TakeOutput ==
    /\ sf.pc \in {"idle", "ret"}
    /\ c.out # 0
    /\ c' = [c EXCEPT !.out = 0]
    /\ rc' = RefDec(rc, "pic", c.out)
    /\ UNCHANGED <<f, pics, cdfs, sf, tdlock, calls, nframes>>
    /\ UNCHANGED <<picVars, tileVars, bitVars, fnVars>>

\* The frame thread of slot s finds n_tile_data != 0 under the slot's lock
\* and calls decode_frame.
FtStart(s) ==
    /\ Alive
    /\ c.n_fc > 1
    /\ f[s].pc = "idle"
    /\ f[s].n_tile_data > 0
    /\ tdlock[s] = 0
    /\ f' = [f EXCEPT ![s].pc = "alloc"]
    /\ UNCHANGED <<c, rc, pics, cdfs, sf, tdlock, calls, nframes>>
    /\ UNCHANGED <<picVars, tileVars, bitVars, fnVars>>

\* After decode_frame the frame thread marks the slot free (n_tile_data = 0)
\* under the slot's lock and signals the slot's condition.
FtDone(s) ==
    /\ Alive
    /\ c.n_fc > 1
    /\ f[s].pc = "ret"
    /\ tdlock[s] = 0
    /\ f' = [f EXCEPT ![s].pc = "idle", ![s].n_tile_data = 0]
    /\ UNCHANGED <<c, rc, pics, cdfs, sf, tdlock, calls, nframes>>
    /\ UNCHANGED <<picVars, tileVars, bitVars, fnVars>>

\* decode.c:2619: the pass publishes the frame's output cdf
PublishesCdfLate(pass, refresh_context) == pass >= 1 /\ refresh_context
PublishesCdf(pass, refresh_context) == pass <= 1 /\ refresh_context

\* every <<tile, sby>> the passes of the frame go through
TileSbRows(h) ==
    {x \in (0 .. (h.tiling.cols * h.tiling.rows - 1)) \X (0 .. (Sbh(h) - 1)) :
        LET tr == x[1] \div h.tiling.cols IN
        /\ h.tiling.row_start_sb[tr + 1] <= x[2]
        /\ x[2] < h.tiling.row_start_sb[tr + 2]}

\* decode.c:2241-2472: the scratch buffers of the frame grow where they have
\* to; a failed allocation returns -ENOMEM
DfAlloc(s) ==
    /\ Alive
    /\ f[s].pc = "alloc"
    /\ \E fail \in {"none"} \cup (ScratchGrows(f[s].sz, f[s].hdr) \cap FailingScratch(c.n_fc)) :
         f' = [f EXCEPT ![s].sz = ScratchAfter(f[s].sz, f[s].hdr, 1, fail),
                        ![s].pc = IF fail = "none" THEN "cdfwait" ELSE "ret",
                        ![s].res = IF fail = "none" THEN 0 ELSE 0 - ENOMEM]
    /\ UNCHANGED <<c, rc, pics, cdfs, sf, tdlock, calls, nframes>>
    /\ UNCHANGED <<picVars, tileVars, bitVars, fnVars>>

\* decode.c:2474-2532: wait for the input cdf, set up the tiles of every tile
\* group (a tile size beyond the payload: goto error, which releases the
\* tile data and returns -EINVAL), release the input cdf, enter the first pass
DfTiles(s) ==
    /\ Alive
    /\ f[s].pc = "cdfwait"
    /\ CdfReady(f[s].in_cdf)
    /\ LET F == f[s]
           r == SetupTiles(F.hdr, SubSeq(F.tile, 1, F.n_tile_data),
                           [err |-> FALSE, ts |-> {}, update_set |-> FALSE,
                            update_ts |-> 0 - 1])
       IN IF r.err
          THEN /\ f' = [f EXCEPT ![s].ts = r.ts, ![s].tile_refs = 0,
                                 ![s].res = 0 - EINVAL, ![s].pc = "ret"]
               /\ UNCHANGED rc
          ELSE /\ f' = [f EXCEPT ![s].ts = r.ts, ![s].update_set = r.update_set,
                                 ![s].update_ts = r.update_ts,
                                 ![s].in_cdf = 0,
                                 ![s].pass = IF Uses2Pass(c.n_fc, F.hdr) THEN 1 ELSE 0,
                                 ![s].tile_row = 0,
                                 ![s].sby = F.hdr.tiling.row_start_sb[1],
                                 ![s].tile_col = 0,
                                 ![s].pc = "sbrow"]
               /\ rc' = RefDecIf(rc, "cdf", F.in_cdf)
    /\ UNCHANGED <<c, pics, cdfs, sf, tdlock, calls, nframes>>
    /\ UNCHANGED <<picVars, tileVars, bitVars, fnVars>>

\* decode.c:2551-2558: decode_tile_sbrow on tile column tile_col of row sby;
\* a nonzero result is returned at once
DfTileSbrow(s) ==
    /\ Alive
    /\ f[s].pc = "sbrow"
    /\ LET F == f[s]
           h == F.hdr
           by == F.sby * (2 ^ SbShift(h))
           col_start == h.tiling.col_start_sb[F.tile_col + 1] * (2 ^ SbShift(h))
           col_end == imin(h.tiling.col_start_sb[F.tile_col + 2] * (2 ^ SbShift(h)),
                           Bw(h))
           env == [bw |-> Bw(h), bh |-> Bh(h),
                   layout |-> IF F.cur = 0 THEN NoPic.layout ELSE pics[F.cur].layout,
                   pass |-> F.pass, inter |-> h.inter,
                   allow_intrabc |-> h.allow_intrabc, b |-> F.b]
       IN /\ (c.n_fc > 1 /\ h.use_ref_frame_mvs /\ F.pass # 2) =>
               \A n \in RefNames : PicReady(F.refp[n], 4 * (by + SbStep(h)), "BLOCK")
          /\ \E str \in IF F.pass = 2 THEN {<<>>} ELSE Streams(c.n_fc) :
               LET r == decode_tile_sbrow(WalkStart(str, F.b), env, h.sb128,
                                          col_start, col_end, by)
               IN /\ calls' = {<<F.pass, fn>> : fn \in r.calls}
                  /\ f' = [f EXCEPT
                       ![s].b = r.b,
                       ![s].res = r.ret,
                       ![s].parsed = IF r.ret = 0 /\ F.pass = 1
                                     THEN @ \cup {<<F.tile_row * h.tiling.cols
                                                    + F.tile_col, F.sby>>}
                                     ELSE @,
                       ![s].tile_col = IF r.ret = 0 /\ @ + 1 < h.tiling.cols
                                       THEN @ + 1 ELSE @,
                       ![s].pc = IF r.ret # 0 THEN "ret"
                                 ELSE IF F.tile_col + 1 < h.tiling.cols
                                 THEN "sbrow" ELSE "filter"]
    /\ UNCHANGED <<c, rc, pics, cdfs, sf, tdlock, nframes>>
    /\ UNCHANGED <<picVars, tileVars, bitVars, fnVars>>

\* decode.c:2560-2565: loopfilter + cdef + restoration of row sby (not in
\* pass 1), signal the row, go on to the next row
DfFilter(s) ==
    /\ Alive
    /\ f[s].pc = "filter"
    /\ LET F == f[s]
           h == F.hdr
           rs == h.tiling.row_start_sb
           more_rows == F.sby + 1 < rs[F.tile_row + 2]
           more_tiles == F.tile_row + 1 < h.tiling.rows
       IN /\ calls' = IF F.pass # 1
                      THEN {<<F.pass, "filter_sbrow">>} ELSE {}
          /\ pics' = PicSignal(pics, F.cur, (F.sby + 1) * SbStep(h) * 4,
                               IF F.pass = 0 THEN "ALL"
                               ELSE IF F.pass = 1 THEN "BLOCK" ELSE "Y")
          /\ f' = [f EXCEPT
               ![s].tile_col = 0,
               ![s].sby = IF more_rows THEN @ + 1
                          ELSE IF more_tiles THEN rs[F.tile_row + 2] ELSE @,
               ![s].tile_row = IF ~more_rows /\ more_tiles THEN @ + 1 ELSE @,
               ![s].pc = IF more_rows \/ more_tiles THEN "sbrow" ELSE "endpass"]
    /\ UNCHANGED <<c, rc, cdfs, sf, tdlock, nframes>>
    /\ UNCHANGED <<picVars, tileVars, bitVars, fnVars>>

\* decode.c:2619-2641 and 2531-2532: publish the output cdf (update it from
\* the tile tiling.update, signal it, release it), then the next pass
DfEndPass(s) ==
    /\ Alive
    /\ f[s].pc = "endpass"
    /\ LET F == f[s]
           h == F.hdr
           pub == PublishesCdf(F.pass, h.refresh_context)
           last == F.pass + 1 > 2 * (IF Uses2Pass(c.n_fc, h) THEN 1 ELSE 0)
       IN /\ cdfs' = IF pub /\ F.out_cdf # 0
                     THEN [cdfs EXCEPT ![F.out_cdf].sig = TRUE,
                                       ![F.out_cdf].upd =
                                          IF F.update_set THEN h.tiling.update ELSE @]
                     ELSE cdfs
          /\ rc' = IF pub THEN RefDecIf(rc, "cdf", F.out_cdf) ELSE rc
          /\ f' = [f EXCEPT
               ![s].out_cdf = IF pub THEN 0 ELSE @,
               ![s].cdf_pubs = IF pub THEN @ + 1 ELSE @,
               ![s].pub_pass = IF pub THEN F.pass ELSE @,
               ![s].cdf_sig = @ \/ pub,
               ![s].pass = IF last THEN @ ELSE @ + 1,
               ![s].tile_row = 0, ![s].tile_col = 0,
               ![s].sby = h.tiling.row_start_sb[1],
               ![s].pc = IF last THEN "finish" ELSE "sbrow"]
    /\ UNCHANGED <<c, pics, sf, tdlock, calls, nframes>>
    /\ UNCHANGED <<picVars, tileVars, bitVars, fnVars>>

\* decode.c:2643-2663: signal the whole picture, release every reference of
\* the frame, return 0
DfFinish(s) ==
    /\ Alive
    /\ f[s].pc = "finish"
    /\ LET F == f[s]
           rc1 == RefDecAll(RefDecAll(rc, "pic", F.refp), "mvs", F.ref_mvs_ref)
           rc2 == RefDecIf(rc1, "pic", F.cur)
           rc3 == RefDecIf(RefDecIf(rc2, "seg", F.cur_segmap_ref), "seg",
                           F.prev_segmap_ref)
       IN /\ pics' = PicSignal(pics, F.cur, AsInt(UINT_MAX), "ALL")
          /\ rc' = RefDecIf(rc3, "mvs", F.mvs_ref)
          /\ f' = [f EXCEPT
               ![s].sig_max = TRUE,
               ![s].refp = [i \in RefNames |-> 0],
               ![s].ref_mvs_ref = [i \in RefNames |-> 0],
               ![s].cur = 0, ![s].cur_segmap_ref = 0, ![s].prev_segmap_ref = 0,
               ![s].mvs_ref = 0, ![s].tile_refs = 0,
               ![s].res = 0, ![s].pc = "ret"]
    /\ UNCHANGED <<c, cdfs, sf, tdlock, calls, nframes>>
    /\ UNCHANGED <<picVars, tileVars, bitVars, fnVars>>

\* ---------------------------------------------------------- specifications
DecodeStep(s) ==
    \/ DfAlloc(s)
    \/ DfTiles(s)
    \/ DfTileSbrow(s)
    \/ DfFilter(s)
    \/ DfEndPass(s)
    \/ DfFinish(s)

(***************************************************************************)
(* src/getbits.c: the bit reader.  A machine word is a sequence of bits,   *)
(* most significant first: c->state has 64 of them, an unsigned 32.        *)
(***************************************************************************)
Zeros(n) == [i \in 1 .. n |-> 0]

\* F(x), with x worked out once
Once(x, F(_)) == CHOOSE r \in {F(v) : v \in {x}} : TRUE

\* x << n and x >> n on a word, n below the width of the word
Shl(x, n) == Once(x, LAMBDA w : SubSeq(w, n + 1, Len(w)) \o Zeros(n))
Shr(x, n) == Once(x, LAMBDA w : Zeros(n) \o SubSeq(w, 1, Len(w) - n))

\* x | y
BitOr(x, y) ==
    Once(<<x, y>>, LAMBDA w :
        [i \in 1 .. Len(w[1]) |-> IF w[1][i] = 1 \/ w[2][i] = 1 THEN 1 ELSE 0])

\* a byte widened to uint64_t
ByteWord(b) == [i \in 1 .. 64 |-> IF i <= 56 THEN 0 ELSE (b \div (2 ^ (64 - i))) % 2]

\* the 32 low bits of a uint64_t: the conversion to unsigned
AsUnsigned(x) == SubSeq(x, 33, 64)

RECURSIVE Carry(_, _, _)
\* the carry of x + y into bit i (the least significant bit is bit 32)
Carry(x, y, i) ==
    IF i = 32 THEN 0 ELSE (x[i + 1] + y[i + 1] + Carry(x, y, i + 1)) \div 2

\* x + y on unsigned: the sum modulo 2^32
AddBits(x, y) ==
    Once(<<x, y>>, LAMBDA w :
        [i \in 1 .. 32 |-> (w[1][i] + w[2][i] + Carry(w[1], w[2], i)) % 2])

\* getbits.c:36-45, init_get_bits over the bytes data
init_get_bits(data) ==
    [data |-> data, ptr |-> 0, ptr_end |-> Len(data), bits_left |-> 0,
     state |-> Zeros(64), error |-> 0, eof |-> 0]

\* getbits.c:51-58, one turn of the do-while of refill; oob is the byte
\* found behind the end of the buffer
RefillTurn(g, state, oob) ==
    LET byte == IF g.ptr < g.ptr_end THEN g.data[g.ptr + 1] ELSE oob
        ptr1 == IF g.eof = 0 THEN g.ptr + 1 ELSE g.ptr
    IN [g |-> [g EXCEPT !.bits_left = @ + 8, !.ptr = ptr1,
                        !.error = IF ptr1 >= g.ptr_end THEN g.eof ELSE @,
                        !.eof = IF ptr1 >= g.ptr_end THEN 1 ELSE @],
        state |-> IF g.eof = 0 THEN BitOr(Shl(state, 8), ByteWord(byte))
                  ELSE Shl(state, 8)]

RECURSIVE RefillLoop(_, _, _, _)
\* getbits.c:50-59, do ... while (n > c->bits_left)
RefillLoop(g, state, n, oob) ==
    Once(RefillTurn(g, state, oob), LAMBDA r :
        IF n > r.g.bits_left THEN RefillLoop(r.g, r.state, n, oob) ELSE r)

\* getbits.c:47-61
refill(g, n, oob) ==
    Once(RefillLoop(g, Zeros(64), n, oob), LAMBDA r :
        [r.g EXCEPT !.state = BitOr(@, Shl(r.state, 64 - r.g.bits_left))])

\* a reader that leaves one bit too many in the value
ShiftOutOneLess(state, n, wide) == Shr(state, 63 - n)

\* getbits.c:72, state >> (64 - n): a shift by the width of the word (n = 0)
\* is undefined; the machine takes the count modulo 64 or shifts everything
\* out
ShiftOut(state, n, wide) ==
    IF n > 0 THEN Shr(state, 64 - n)
    ELSE IF wide = "modulo" THEN state ELSE Zeros(64)

WideShifts == {"modulo", "zero"}

\* getbits.c:63-73, get_bits: the reader afterwards and the value returned
get_bits(g, n, oob, wide) ==
    Once(IF n > g.bits_left THEN refill(g, n, oob) ELSE g, LAMBDA g1 :
        [g |-> [g1 EXCEPT !.bits_left = @ - n, !.state = Shl(@, n)],
         ret |-> AsUnsigned(ShiftOut(g1.state, n, wide))])

\* a flush that leaves the unread bits in the register
FlushKeepsBits(g) == [g |-> g, ret |-> g.ptr]

\* getbits.c:125-129, flush_get_bits: the reader afterwards and the pointer
\* returned (as an offset from ptr_start)
flush_get_bits(g) ==
    [g |-> [g EXCEPT !.bits_left = 0, !.state = Zeros(64)], ret |-> g.ptr]

\* the input buffers: up to MaxBytes bytes, a run of zero bytes and then
\* bytes 10100101
MaxBytes == 5

ByteVals == {0, 165}

Buffers ==
    {data \in UNION {[1 .. k -> ByteVals] : k \in 0 .. MaxBytes} :
        \A i \in 1 .. (Len(data) - 1) : data[i] <= data[i + 1]}

\* what may lie behind the end of a buffer
OobBytes == {0, 255}

\* the undefined values a call can meet: a byte behind the end is read only
\* before eof is set, a shift by 64 is made only for n = 0
Behind(g) == IF g.eof = 0 /\ g.ptr >= g.ptr_end THEN OobBytes ELSE {0}

Shifts(n) == IF n = 0 THEN WideShifts ELSE {"modulo"}

\* the bits of the buffer, first byte first, most significant bit first
BufBits(data) ==
    [i \in 1 .. (8 * Len(data)) |->
        (data[((i - 1) \div 8) + 1] \div (2 ^ (7 - ((i - 1) % 8)))) % 2]

\* the place of the next unread bit: bytes taken from the buffer less the
\* bits still in c->state
BitPos(g) == 8 * g.ptr - g.bits_left

\* v as the unsigned that get_bits returns: n bits widened to 32
Widen(v) == Zeros(32 - Len(v)) \o v

\* the caller of the reader and its latest call: the call, its argument and
\* what it returned, the places in the stream before and after it as the
\* caller counts them, whether flush_get_bits was called so far
Called(op, n, ret, cur) ==
    [pc |-> "idle", op |-> op, n |-> n, pos |-> rd.cur, ret |-> ret,
     cur |-> cur, flushes |-> rd.flushes, flushed |-> 0, n_bits |-> 0]

Idle ==
    [pc |-> "idle", op |-> "init", n |-> 0, pos |-> 0, ret |-> Zeros(32),
     cur |-> 0, flushes |-> FALSE, flushed |-> 0, n_bits |-> 0]

BitsOff ==
    /\ gb = init_get_bits(<< >>)
    /\ rd = Idle

BitsInit ==
    /\ gb \in {init_get_bits(data) : data \in Buffers}
    /\ rd = Idle

\* the place in the stream after n more bits; every place behind the end
\* of the buffer counts as the first one there
Ahead(n) == IF rd.cur + n > 8 * gb.ptr_end THEN 8 * gb.ptr_end + 1 ELSE rd.cur + n

\* a call of get_bits(c, n), n <= 32 (the assert of getbits.c:64); a call
\* that follows flush_get_bits remembers the pointer that one returned
GetBitsCall ==
    /\ rd.pc = "idle"
    /\ \E n \in 0 .. 32 : \E oob \in Behind(gb), wide \in Shifts(n) :
         \E r \in {get_bits(gb, n, oob, wide)} :
         /\ gb' = r.g
         /\ rd' = [Called("get_bits", n, r.ret, Ahead(n)) EXCEPT
                      !.flushed = IF rd.op = "flush" THEN rd.flushed ELSE 0 - 1]
    /\ UNCHANGED <<picVars, tileVars, frameVars, fnVars>>

\* a call of flush_get_bits(c): the caller is at the next whole byte
FlushCall ==
    /\ rd.pc = "idle"
    /\ rd.op # "flush"
    /\ LET r == flush_get_bits(gb)
           cur == IF rd.cur <= 8 * gb.ptr_end
                  THEN 8 * ((rd.cur + 7) \div 8) ELSE rd.cur
       IN /\ gb' = r.g
          /\ rd' = [Called("flush", 0, Zeros(32), cur) EXCEPT
                       !.flushed = r.ret, !.flushes = TRUE]
    /\ UNCHANGED <<picVars, tileVars, frameVars, fnVars>>

\* getbits.c:90-91, get_vlc entered
VlcCall ==
    /\ rd.pc = "idle"
    /\ rd' = [Called("get_vlc", 0, Zeros(32), rd.cur) EXCEPT !.pc = "vlc"]
    /\ UNCHANGED gb
    /\ UNCHANGED <<picVars, tileVars, frameVars, fnVars>>

\* (1 << n_bits) - 1 as unsigned
LowOnes(n) == [i \in 1 .. 32 |-> IF i > 32 - n THEN 1 ELSE 0]

\* getbits.c:91-94: one turn of while (!get_bits(c, 1)) n_bits++, and when
\* the bit is a one the return.  n_bits is compared with 32 only, so the
\* count stays at 32 once there.
VlcBit ==
    /\ rd.pc = "vlc"
    /\ \E oob \in Behind(gb), wide \in Shifts(rd.n_bits) :
         \E b \in {get_bits(gb, 1, oob, wide)} :
         IF b.ret = Zeros(32)
         THEN /\ gb' = b.g
              /\ rd' = [rd EXCEPT !.n_bits = IF @ >= 32 THEN @ ELSE @ + 1,
                                  !.cur = Ahead(1)]
         ELSE IF rd.n_bits >= 32
         THEN /\ gb' = b.g
              /\ rd' = [rd EXCEPT !.pc = "idle", !.ret = LowOnes(32),
                                  !.cur = Ahead(1)]
         ELSE \E s \in {get_bits(b.g, rd.n_bits, oob, wide)} :
              /\ gb' = s.g
              /\ rd' = [rd EXCEPT !.pc = "idle",
                                  !.ret = AddBits(LowOnes(rd.n_bits), s.ret),
                                  !.cur = Ahead(1 + rd.n_bits)]
    /\ UNCHANGED <<picVars, tileVars, frameVars, fnVars>>

(***************************************************************************)
(* Functions of their arguments alone, applied to arguments drawn from     *)
(* bounded sets.                                                           *)
(***************************************************************************)
FnOff == call = [fn |-> "none"]

\* an av1_neg_deinterleave whose odd step is the even one
NegDeinterleaveEvenOnly(diff, ref, max) ==
    IF ref = 0 THEN diff
    ELSE IF ref >= max - 1 THEN max - diff - 1
    ELSE IF 2 * ref < max
    THEN IF diff <= 2 * ref
         THEN IF diff % 2 = 1 THEN ref + (diff \div 2) ELSE ref - (diff \div 2)
         ELSE diff
    ELSE IF diff <= 2 * (max - ref - 1)
         THEN IF diff % 2 = 1 THEN ref + (diff \div 2) ELSE ref - (diff \div 2)
         ELSE max - (diff + 1)

\* decode.c:179-199 (diff is not negative: diff & 1 is diff % 2, >> 1 halves)
av1_neg_deinterleave(diff, ref, max) ==
    IF ref = 0 THEN diff
    ELSE IF ref >= max - 1 THEN max - diff - 1
    ELSE IF 2 * ref < max
    THEN IF diff <= 2 * ref
         THEN IF diff % 2 = 1 THEN ref + ((diff + 1) \div 2)
              ELSE ref - (diff \div 2)
         ELSE diff
    ELSE IF diff <= 2 * (max - ref - 1)
         THEN IF diff % 2 = 1 THEN ref + ((diff + 1) \div 2)
              ELSE ref - (diff \div 2)
         ELSE max - (diff + 1)

\* the largest max handed to av1_neg_deinterleave
MaxNegMax == 9

\* av1_neg_deinterleave(diff, ref, max) for every diff in 0 .. max
NegDeinterleaveCall ==
    /\ call.fn = "none"
    /\ \E max \in 0 .. MaxNegMax : \E ref \in 0 .. max :
         call' = [fn |-> "av1_neg_deinterleave", ref |-> ref, max |-> max,
                  seg_id |-> [diff \in 0 .. max |->
                                 av1_neg_deinterleave(diff, ref, max)]]
    /\ UNCHANGED <<picVars, tileVars, frameVars, bitVars>>


(***************************************************************************)
(* tools/dav1d_cli_parse.c: parse.  An element of argv is an option ("-c"  *)
(* or "--name") or any other word, a word being its characters.            *)
(***************************************************************************)
Short(ch) == [k |-> "short", name |-> ch, text |-> << >>]
Long(name) == [k |-> "long", name |-> name, text |-> << >>]
Word(text) == [k |-> "word", name |-> "", text |-> text]

\* a char * that is NULL
NoWord == [k |-> "null", name |-> "", text |-> << >>]

\* dav1d_cli_parse.c:43
short_opts == << "i", ":", "o", ":", "v", "q", "l", ":" >>

\* dav1d_cli_parse.c:51-62: name, has_arg, val
long_opts ==
    << [name |-> "input", has_arg |-> 1, val |-> "i"],
       [name |-> "output", has_arg |-> 1, val |-> "o"],
       [name |-> "quiet", has_arg |-> 0, val |-> "q"],
       [name |-> "muxer", has_arg |-> 1, val |-> "ARG_MUXER"],
       [name |-> "version", has_arg |-> 0, val |-> "v"],
       [name |-> "limit", has_arg |-> 1, val |-> "l"],
       [name |-> "skip", has_arg |-> 1, val |-> "s"],
       [name |-> "framethreads", has_arg |-> 1, val |-> "ARG_FRAME_THREADS"],
       [name |-> "tilethreads", has_arg |-> 1, val |-> "ARG_TILE_THREADS"] >>

\* dav1d_cli_parse.c:75-83, the usage text: the options it gives a short
\* form for, and their long names
Documented ==
    [ch \in {"i", "o", "q", "l", "s", "v"} |->
        CASE ch = "i" -> "input" [] ch = "o" -> "output" [] ch = "q" -> "quiet"
          [] ch = "l" -> "limit" [] ch = "s" -> "skip" [] ch = "v" -> "version"]

\* getopt_long(argc, argv, short_opts, long_opts, NULL) from element i on:
\* the value returned ("end" for -1, "?" for an option it does not know or
\* one that lacks its argument), optarg and the element to go on with.
\* permute: the words that are no options are skipped (GNU) or end the
\* options (POSIX).
RECURSIVE getopt_long(_, _, _)
getopt_long(argv, i, permute) ==
    IF i > Len(argv) THEN [o |-> "end", optarg |-> NoWord, next |-> i]
    ELSE LET a == argv[i]
             known ==
                 IF a.k = "short"
                 THEN {[val |-> a.name,
                        has_arg |-> IF n < Len(short_opts) /\ short_opts[n + 1] = ":"
                                    THEN 1 ELSE 0] :
                       n \in {m \in DOMAIN short_opts :
                                 short_opts[m] = a.name /\ a.name # ":"}}
                 ELSE {[val |-> long_opts[n].val, has_arg |-> long_opts[n].has_arg] :
                       n \in {m \in DOMAIN long_opts : long_opts[m].name = a.name}}
         IN IF a.k = "word"
            THEN IF permute THEN getopt_long(argv, i + 1, permute)
                 ELSE [o |-> "end", optarg |-> NoWord, next |-> i]
            ELSE IF known = {}
            THEN [o |-> "?", optarg |-> NoWord, next |-> i + 1]
            ELSE LET opt == CHOOSE x \in known : TRUE IN
                 IF opt.has_arg = 0
                 THEN [o |-> opt.val, optarg |-> NoWord, next |-> i + 1]
                 ELSE IF i + 1 > Len(argv)
                 THEN [o |-> "?", optarg |-> NoWord, next |-> i + 1]
                 ELSE [o |-> opt.val, optarg |-> argv[i + 1], next |-> i + 2]

\* the value of a digit of strtoul
DigitVal(ch) ==
    CASE ch = "0" -> 0 [] ch = "1" -> 1 [] ch = "2" -> 2 [] ch = "3" -> 3
      [] ch = "4" -> 4 [] ch = "5" -> 5 [] ch = "6" -> 6 [] ch = "7" -> 7
      [] ch = "8" -> 8 [] ch = "9" -> 9 [] OTHER -> 10

RECURSIVE StrToUl(_, _, _, _)
\* strtoul from character i on in the given base: the value and *end
StrToUl(text, i, base, acc) ==
    IF i > Len(text) \/ DigitVal(text[i]) >= base THEN [res |-> acc, end |-> i]
    ELSE StrToUl(text, i + 1, base, acc * base + DigitVal(text[i]))

\* dav1d_cli_parse.c:107-112, parse_unsigned: strtoul(optarg, &end, 0), a
\* leading 0 selecting base 8; ok is 0 where error() is called
parse_unsigned(optarg) ==
    LET text == optarg.text
        octal == Len(text) > 1 /\ text[1] = "0"
        r == StrToUl(text, 1, IF octal THEN 8 ELSE 10, 0)
    IN [res |-> r.res,
        ok |-> IF r.end <= Len(text) \/ r.end = 1 THEN 0 ELSE 1]

\* dav1d_cli_parse.c:119-120: the settings parse starts from
Settings0 ==
    [exit |-> "no",
     cli |-> [outputfile |-> NoWord, inputfile |-> NoWord, quiet |-> 0,
              limit |-> 0, skip |-> 0, muxer |-> NoWord],
     lib |-> [n_frame_threads |-> 1, n_tile_threads |-> 1]]

\* exit(code): the settings are never seen
Exit(code) == [Settings0 EXCEPT !.exit = code]

RECURSIVE ParseLoop(_, _, _, _)
\* dav1d_cli_parse.c:122-156
ParseLoop(argv, i, permute, st) ==
    LET g == getopt_long(argv, i, permute)
        u == parse_unsigned(g.optarg)
        go(st1) == ParseLoop(argv, g.next, permute, st1)
    IN CASE g.o = "end" -> st
         [] g.o = "o" -> go([st EXCEPT !.cli.outputfile = g.optarg])
         [] g.o = "i" -> go([st EXCEPT !.cli.inputfile = g.optarg])
         [] g.o = "q" -> go([st EXCEPT !.cli.quiet = 1])
         [] g.o = "l" -> IF u.ok = 0 THEN Exit("exit(1)")
                         ELSE go([st EXCEPT !.cli.limit = u.res])
         [] g.o = "s" -> IF u.ok = 0 THEN Exit("exit(1)")
                         ELSE go([st EXCEPT !.cli.skip = u.res])
         [] g.o = "ARG_MUXER" -> go([st EXCEPT !.cli.muxer = g.optarg])
         [] g.o = "ARG_FRAME_THREADS" ->
                IF u.ok = 0 THEN Exit("exit(1)")
                ELSE go([st EXCEPT !.lib.n_frame_threads = u.res])
         [] g.o = "ARG_TILE_THREADS" ->
                IF u.ok = 0 THEN Exit("exit(1)")
                ELSE go([st EXCEPT !.lib.n_tile_threads = u.res])
         [] g.o = "v" -> Exit("exit(0)")
         [] OTHER -> go(st)

\* dav1d_cli_parse.c:114-162, parse(argc, argv + 1, ...)
parse(argv, permute) ==
    LET st == ParseLoop(argv, 1, permute, Settings0) IN
    IF st.exit # "no" THEN st
    ELSE IF st.cli.inputfile = NoWord \/ st.cli.outputfile = NoWord
    THEN Exit("exit(1)")
    ELSE st

\* the command lines: up to MaxOpts options, each with the argument it takes
MaxOpts == 3

Numbers == {<< "3" >>, << "0", "1", "0" >>}

OptionUnits ==
    {<<o, Word(<< "a" >>)>> : o \in {Short("i"), Short("o"), Long("input"),
                                    Long("output"), Long("muxer")}}
    \cup {<<o>> : o \in {Short("q"), Short("v"), Long("quiet"), Long("version")}}
    \cup {<<o, Word(<< "3" >>)>> : o \in {Short("l"), Long("limit"),
                                         Long("framethreads"), Long("tilethreads")}}
    \cup {<<o, Word(n)>> : o \in {Short("s"), Long("skip")}, n \in Numbers}

RECURSIVE Flatten(_)
Flatten(units) == IF units = << >> THEN << >> ELSE Head(units) \o Flatten(Tail(units))

CommandLines ==
    {Flatten(units) : units \in UNION {[1 .. n -> OptionUnits] : n \in 0 .. MaxOpts}}

\* parse on a command line
ParseCall ==
    /\ call.fn = "none"
    /\ \E argv \in CommandLines, permute \in BOOLEAN :
         call' = [fn |-> "parse", argv |-> argv, permute |-> permute,
                  out |-> parse(argv, permute)]
    /\ UNCHANGED <<picVars, tileVars, frameVars, bitVars>>


\* the frames decode_sb walks: sides in pixels, and up to MaxSyms symbols of
\* the range coder
FrameSides == {16, 32, 40, 64}

MaxSyms == 3

SymbolRuns == UNION {[1 .. n -> {0, 1, 3}] : n \in 0 .. MaxSyms}

\* decode_sb on the first 64x64 superblock of a frame, as decode_tile_sbrow
\* calls it when parsing and reconstructing in one pass (decode.c:2206-2208)
DecodeSbCall ==
    /\ call.fn = "none"
    /\ \E w \in FrameSides, h \in FrameSides, layout \in {"I420", "I422"},
          syms \in SymbolRuns :
         LET hdr == [width |-> w, height |-> h]
             env == [bw |-> Bw(hdr), bh |-> Bh(hdr), layout |-> layout,
                     pass |-> 0, inter |-> FALSE, allow_intrabc |-> FALSE,
                     b |-> {}]
             r == decode_sb(WalkStart(syms, {}), env, BL_64X64, 0, 0)
         IN call' = [fn |-> "decode_sb", bw |-> env.bw, bh |-> env.bh,
                     layout |-> layout, syms |-> syms, ret |-> r.ret,
                     blocks |-> r.blocks]
    /\ UNCHANGED <<picVars, tileVars, frameVars, bitVars>>

\* ---- decode_b: the above and left neighbour contexts (src/decode.c) ----

\* the entries of a context array that are modelled (the code keeps 32)
CtxLen == 4

\* enum RectTxfmSize, the sizes used here
TX_4X4 == 0
TX_8X8 == 1
TX_64X64 == 4
RTX_4X8 == 5

\* av1_txfm_dimensions[tx]: the log2 of the width and height in 4x4 units
av1_txfm_dimensions(tx) ==
    CASE tx = TX_4X4 -> [lw |-> 0, lh |-> 0]
      [] tx = TX_8X8 -> [lw |-> 1, lh |-> 1]
      [] tx = RTX_4X8 -> [lw |-> 0, lh |-> 1]

\* av1_block_dimensions[bs][2..3]: the log2 of a block's width or height in
\* 4x4 units
Log2Dim(n4) == IF n4 >= 4 THEN 2 ELSE IF n4 >= 2 THEN 1 ELSE 0

\* a memset that stops one entry short
MemsetShort(arr, off, v, n) ==
    [i \in 0 .. (CtxLen - 1) |-> IF off <= i /\ i < off + n - 1 THEN v ELSE arr[i]]

\* memset(&arr[off], v, n)
memset(arr, off, v, n) ==
    [i \in 0 .. (CtxLen - 1) |-> IF off <= i /\ i < off + n THEN v ELSE arr[i]]

\* the memsets of one field: av to t->a (an entries from aoff), lv to t->l
\* (ln entries from loff)
SetBoth(t, fld, av, lv, aoff, an, loff, ln) ==
    [a |-> [t.a EXCEPT ![fld] = memset(@, aoff, av, an)],
     l |-> [t.l EXCEPT ![fld] = memset(@, loff, lv, ln)]]

\* a context as the inter blocks of an earlier frame's tile left it
LeftOver ==
    [intra |-> [i \in 0 .. (CtxLen - 1) |-> 0],
     skip |-> [i \in 0 .. (CtxLen - 1) |-> 1],
     skip_mode |-> [i \in 0 .. (CtxLen - 1) |-> 1],
     mode |-> [i \in 0 .. (CtxLen - 1) |-> "NEWMV"],
     uvmode |-> [i \in 0 .. (CtxLen - 1) |-> "DC_PRED"],
     pal_sz |-> [i \in 0 .. (CtxLen - 1) |-> 0],
     tx |-> [i \in 0 .. (CtxLen - 1) |-> TX_8X8],
     tx_intra |-> [i \in 0 .. (CtxLen - 1) |-> 1],
     comp_type |-> [i \in 0 .. (CtxLen - 1) |-> "COMP_INTER_AVG"],
     ref0 |-> [i \in 0 .. (CtxLen - 1) |-> 0],
     ref1 |-> [i \in 0 .. (CtxLen - 1) |-> 4],
     filter0 |-> [i \in 0 .. (CtxLen - 1) |-> "FILTER_8TAP_SHARP"],
     filter1 |-> [i \in 0 .. (CtxLen - 1) |-> "FILTER_8TAP_SHARP"],
     seg_pred |-> [i \in 0 .. (CtxLen - 1) |-> 1]]

\* the whole of an array set to v
Filled(v) == [i \in 0 .. (CtxLen - 1) |-> v]

\* decode.c:1985-2010, reset_context (comp_type 0 is COMP_INTER_NONE)
reset_context(ctx, keyframe, pass) ==
    LET c1 == [ctx EXCEPT !.intra = Filled(IF keyframe THEN 1 ELSE 0),
                          !.uvmode = Filled("DC_PRED"),
                          !.mode = IF keyframe THEN Filled("DC_PRED") ELSE @]
    IN IF pass = 2 THEN c1
       ELSE [c1 EXCEPT
               !.skip = Filled(0),
               !.skip_mode = Filled(0),
               !.tx_intra = Filled(-1),
               !.tx = Filled(TX_64X64),
               !.ref0 = IF keyframe THEN @ ELSE Filled(-1),
               !.ref1 = IF keyframe THEN @ ELSE Filled(-1),
               !.comp_type = IF keyframe THEN @ ELSE Filled("COMP_INTER_NONE"),
               !.mode = IF keyframe THEN @ ELSE Filled("NEARESTMV"),
               !.filter0 = Filled("N_SWITCHABLE_FILTERS"),
               !.filter1 = Filled("N_SWITCHABLE_FILTERS"),
               !.seg_pred = Filled(0),
               !.pal_sz = Filled(0)]

\* decode.c:676-688, the footprint of a block at (bx, by) of bw4 x bh4 units
Footprint(bx, by, bw4, bh4, layout) ==
    LET ss_ver == IF layout = "I420" THEN 1 ELSE 0
        ss_hor == IF layout # "I444" THEN 1 ELSE 0
    IN [bx4 |-> bx, by4 |-> by, bw4 |-> bw4, bh4 |-> bh4,
        cbx4 |-> bx \div (2 ^ ss_hor), cby4 |-> by \div (2 ^ ss_ver),
        cbw4 |-> (bw4 + ss_hor) \div (2 ^ ss_hor),
        cbh4 |-> (bh4 + ss_ver) \div (2 ^ ss_ver),
        has_chroma |-> /\ layout # "I400"
                       /\ (bw4 > ss_hor \/ bx % 2 = 1)
                       /\ (bh4 > ss_ver \/ by % 2 = 1)]

\* a field of both contexts set over the luma footprint
SetLuma(t, g, fld, v) == SetBoth(t, fld, v, v, g.bx4, g.bw4, g.by4, g.bh4)

\* a field of both contexts set over the chroma footprint
SetChroma(t, g, fld, v) ==
    SetBoth(t, fld, v, v, g.cbx4, g.cbw4, g.cby4, g.cbh4)

RECURSIVE SetAll(_, _, _)
\* the luma memsets of ws = << <<field, value>>, ... >>, in order
SetAll(t, g, ws) ==
    IF ws = <<>> THEN t
    ELSE SetAll(SetLuma(t, g, Head(ws)[1], Head(ws)[2]), g, Tail(ws))

\* decode.c:1099-1154, the context updates of an intra block
IntraContexts(t, env, g, b) ==
    LET t_dim == av1_txfm_dimensions(b.tx)
        y_mode_nofilt == IF b.y_mode = "FILTER_PRED" THEN "DC_PRED" ELSE b.y_mode
        t2 == SetBoth(t, "tx_intra", t_dim.lw, t_dim.lh,
                      g.bx4, g.bw4, g.by4, g.bh4)
        t3 == SetAll(t2, g, << <<"mode", y_mode_nofilt>>,
                               <<"pal_sz", b.pal_sz[1]>> >>)
        t4 == IF g.has_chroma THEN SetChroma(t3, g, "uvmode", b.uv_mode) ELSE t3
        t5 == IF env.inter \/ env.allow_intrabc
              THEN SetBoth(t4, "tx", t_dim.lw, t_dim.lh,
                           g.bx4, g.bw4, g.by4, g.bh4)
              ELSE t4
    IN IF env.inter
       THEN SetAll(t5, g, << <<"comp_type", "COMP_INTER_NONE">>,
                             <<"ref0", -1>>, <<"ref1", -1>>,
                             <<"filter0", "N_SWITCHABLE_FILTERS">>,
                             <<"filter1", "N_SWITCHABLE_FILTERS">> >>)
       ELSE t5

\* decode.c:1197-1208, the context updates of an intra block copy
IntrabcContexts(t, env, g, b) ==
    LET t2 == SetBoth(t, "tx_intra", Log2Dim(g.bw4), Log2Dim(g.bh4),
                      g.bx4, g.bw4, g.by4, g.bh4)
        t3 == SetAll(t2, g, << <<"mode", "DC_PRED">>, <<"pal_sz", 0>> >>)
    IN IF g.has_chroma THEN SetChroma(t3, g, "uvmode", "DC_PRED") ELSE t3

\* decode.c:1702-1729, the context updates of an inter block
InterContexts(t, env, g, b) ==
    LET t1 == SetLuma(t, g, "pal_sz", 0)
        t2 == IF g.has_chroma THEN SetChroma(t1, g, "uvmode", "DC_PRED") ELSE t1
        t4 == SetBoth(t2, "tx_intra", Log2Dim(g.bw4), Log2Dim(g.bh4),
                      g.bx4, g.bw4, g.by4, g.bh4)
    IN SetAll(t4, g, << <<"comp_type", b.comp_type>>,
                        <<"filter0", b.filter[1]>>, <<"filter1", b.filter[2]>>,
                        <<"mode", b.inter_mode>>,
                        <<"ref0", b.ref[1]>>, <<"ref1", b.ref[2]>> >>)

\* decode.c:1099-1208, 1692-1746: the context updates of decode_b for a
\* block parsed in pass 0 or 1 (seg_pred is decode_b's local, 747-801)
BlockContexts(t, env, g, b) ==
    LET t1 == IF b.intra = 1 THEN IntraContexts(t, env, g, b)
              ELSE IF ~env.inter THEN IntrabcContexts(t, env, g, b)
              ELSE InterContexts(t, env, g, b)
    IN SetAll(t1, g, << <<"seg_pred", b.seg_pred>>,
                        <<"skip_mode", b.skip_mode>>,
                        <<"intra", b.intra>>, <<"skip", b.skip>> >>)

\* the records decode_b parses: intra blocks
IntraBlocks ==
    {[intra |-> 1, skip |-> s, skip_mode |-> 0, y_mode |-> ym, uv_mode |-> uvm,
      pal_sz |-> <<IF ym = "DC_PRED" THEN p ELSE 0, 0>>, tx |-> tx,
      seg_pred |-> sp] :
        s \in {0, 1}, ym \in {"DC_PRED", "VERT_PRED", "FILTER_PRED"},
        uvm \in {"DC_PRED", "VERT_PRED"}, p \in {0, 2},
        tx \in {TX_4X4, TX_8X8, RTX_4X8}, sp \in {0, 1}}

\* intra block copies (decode.c:1155-1208)
IntrabcBlocks ==
    {[intra |-> 0, skip |-> s, skip_mode |-> 0, seg_pred |-> sp] :
        s \in {0, 1}, sp \in {0, 1}}

\* inter blocks (decode.c:1209-1729); skip_mode implies skip (788)
InterBlocks ==
    {[intra |-> 0, skip |-> IF sm = 1 THEN 1 ELSE s, skip_mode |-> sm,
      inter_mode |-> im, comp_type |-> ct[1], ref |-> ct[2],
      filter |-> fl, seg_pred |-> sp] :
        s \in {0, 1}, sm \in {0, 1}, im \in {"NEARESTMV", "NEWMV"},
        ct \in {<<"COMP_INTER_NONE", <<0, -1>> >>,
                <<"COMP_INTER_AVG", <<0, 4>> >>},
        fl \in {<<"FILTER_8TAP_REGULAR", "FILTER_8TAP_REGULAR">>,
                <<"FILTER_8TAP_SHARP", "FILTER_8TAP_REGULAR">>},
        sp \in {0, 1}}

\* decode.c:912-926, the blocks a frame can hold
BlocksOf(env) ==
    IF env.inter THEN IntraBlocks \cup InterBlocks
    ELSE IF env.allow_intrabc THEN IntraBlocks \cup IntrabcBlocks
    ELSE IntraBlocks

\* key frame, key frame with intra block copy, inter frame; pass 0 or 1
BlockEnvs ==
    {[inter |-> e[1], allow_intrabc |-> e[2], pass |-> p] :
        e \in {<<FALSE, FALSE>>, <<FALSE, TRUE>>, <<TRUE, FALSE>>},
        p \in {0, 1}}

\* positions and sizes of a block inside the modelled entries
BlockPlaces ==
    {<<0, 0, 1, 1>>, <<1, 0, 1, 1>>, <<1, 1, 1, 1>>, <<2, 0, 2, 1>>,
     <<0, 2, 2, 2>>, <<0, 0, 4, 4>>}

\* decode_b on one block of a tile whose contexts were reset by setup_tile
\* (decode.c:2071) and decode_frame (2539)
DecodeBCall ==
    /\ call.fn = "none"
    /\ \E env \in BlockEnvs, pl \in BlockPlaces,
          layout \in {"I400", "I420", "I444"} :
         \E b \in BlocksOf(env) :
           LET g == Footprint(pl[1], pl[2], pl[3], pl[4], layout)
               r0 == reset_context(LeftOver, ~env.inter, env.pass)
               t0 == [a |-> r0, l |-> r0]
           IN call' = [fn |-> "decode_b", env |-> env, g |-> g, b |-> b,
                       before |-> t0, t |-> BlockContexts(t0, env, g, b)]
    /\ UNCHANGED <<picVars, tileVars, frameVars, bitVars>>

\* ---- read_pal_plane (src/decode.c) ----

\* the symbols of the range coder read_pal_plane is run on: up to MaxPalSyms
\* raw numbers (an exhausted payload decodes zeros); a raw number gives
\* msac_decode_symbol_adapt(n) as raw % n and msac_decode_bools(n) as its low
\* n bits
MaxPalSyms == 4

AllOnes == 2 ^ 16 - 1

PalSyms == UNION {[1 .. n -> {0, 1, 6, AllOnes}] : n \in 0 .. MaxPalSyms}

\* the next raw symbol, and the symbols after it
PalRaw(s) == IF s = <<>> THEN 0 ELSE Head(s)

PalRest(s) == IF s = <<>> THEN <<>> ELSE Tail(s)

\* ulog2 (common/intops.h): the position of the highest set bit
RECURSIVE ulog2(_)
ulog2(v) == IF v <= 1 THEN 0 ELSE 1 + ulog2(v \div 2)

\* decode.c:377, 384, 391, 397: cache[n_cache++] = v unless v repeats the
\* last entry
CachePush(cache, v) ==
    IF cache = <<>> \/ cache[Len(cache)] # v THEN Append(cache, v) ELSE cache

\* a cache that keeps repeated entries
FillCacheKeepsRepeats(l, a, cache) ==
    l \o a

RECURSIVE FillCache(_, _, _)
\* decode.c:373-400, "fill/sort cache": l and a are the l_cache and a_cache
\* entries of the left and above palettes that are still to be taken
FillCache(l, a, cache) ==
    IF l # <<>> /\ a # <<>>
    THEN IF Head(l) < Head(a)
         THEN FillCache(Tail(l), a, CachePush(cache, Head(l)))
         ELSE FillCache(IF Head(a) = Head(l) THEN Tail(l) ELSE l, Tail(a),
                        CachePush(cache, Head(a)))
    ELSE IF l # <<>> THEN FillCache(Tail(l), a, CachePush(cache, Head(l)))
    ELSE IF a # <<>> THEN FillCache(l, Tail(a), CachePush(cache, Head(a)))
    ELSE cache

RECURSIVE FindUsed(_, _, _, _)
\* decode.c:402-407, "find reused cache entries"
FindUsed(s, cache, used, pal_sz) ==
    IF cache = <<>> \/ Len(used) >= pal_sz THEN [s |-> s, used |-> used]
    ELSE FindUsed(PalRest(s), Tail(cache),
                  IF PalRaw(s) % 2 = 1 THEN Append(used, Head(cache)) ELSE used,
                  pal_sz)

RECURSIVE NewEntries(_, _, _, _, _, _)
\* decode.c:420-429, the do-while loop of the new entries: new holds the
\* entries parsed so far, todo the number still missing
NewEntries(s, new, bits, max, np, todo) ==
    LET prev0 == new[Len(new)]
        delta == PalRaw(s) % (2 ^ bits)
        prev == imin(prev0 + delta + np, max)
        new1 == Append(new, prev)
    IN IF prev + np >= max
       THEN [s |-> PalRest(s),
             new |-> new1 \o [i \in 1 .. (todo - 1) |-> prev]]
       ELSE IF todo = 1 THEN [s |-> PalRest(s), new |-> new1]
       ELSE NewEntries(PalRest(s), new1,
                       imin(bits, 1 + ulog2(max - prev - np)), max, np,
                       todo - 1)

RECURSIVE MergePal(_, _)
\* decode.c:432-441, "merge cache+new entries"
MergePal(used, new) ==
    IF used = <<>> THEN new
    ELSE IF new = <<>> \/ Head(used) <= Head(new)
         THEN <<Head(used)>> \o MergePal(Tail(used), new)
         ELSE <<Head(new)>> \o MergePal(used, Tail(new))

\* decode.c:359-445, read_pal_plane for plane pl: l and a are the cached
\* left and above palettes (l_cache and a_cache entries of t->al_pal), by4
\* the row inside the superblock, bpc the bit depth
read_pal_plane(s, pl, l, a, by4, bpc) ==
    LET pal_sz == 2 + (PalRaw(s) % 7)
        np == IF pl = 0 THEN 1 ELSE 0
        cache == FillCache(l, IF by4 % 16 # 0 THEN a ELSE <<>>, <<>>)
        u == FindUsed(PalRest(s), cache, <<>>, pal_sz)
        i == Len(u.used)
        max == 2 ^ bpc - 1
        first == PalRaw(u.s) % (2 ^ bpc)
        s1 == PalRest(u.s)
        new == IF i + 1 < pal_sz
               THEN NewEntries(PalRest(s1), <<first>>,
                               bpc - 3 + (PalRaw(s1) % 4), max, np,
                               pal_sz - i - 1).new
               ELSE <<first>>
    IN [pal_sz |-> pal_sz, cache |-> cache, used |-> u.used,
        pal |-> IF i < pal_sz THEN MergePal(u.used, new) ELSE u.used]

\* the palettes a neighbour can have left in t->al_pal (each the output of
\* an earlier read_pal_plane: in order, with repeats where it saturated)
CachedPals == {<<>>, <<1, 7>>, <<1, 255, 255>>}

\* read_pal_plane as decode_b calls it for a palette block (decode.c:1004)
ReadPalCall ==
    /\ call.fn = "none"
    /\ \E s \in PalSyms, pl \in {0, 1}, l \in CachedPals, a \in CachedPals,
          by4 \in {0, 1}, bpc \in {8, 10} :
         call' = [fn |-> "read_pal_plane", s |-> s, pl |-> pl, l |-> l,
                  a |-> a, by4 |-> by4, bpc |-> bpc,
                  out |-> read_pal_plane(s, pl, l, a, by4, bpc)]
    /\ UNCHANGED <<picVars, tileVars, frameVars, bitVars>>

\* ---- derive_warpmv: the selection of the samples (src/decode.c) ----

\* decode.c:319, the most samples find_matching_ref and add_sample collect
MaxSamples == 8

\* labs
Abs(v) == IF v < 0 THEN 0 - v ELSE v

\* decode.c:324, the threshold of the MV difference
WarpThresh(bw4, bh4) == 4 * iclip(imax(bw4, bh4), 4, 28)

\* decode.c:325-332, mvd[i] of sample p (its two points are dx, dy apart),
\* -1 for a sample over the threshold
SampleMvd(p, mv, thresh) ==
    LET d == Abs(p.dx - mv.x) + Abs(p.dy - mv.y)
    IN IF d > thresh THEN -1 ELSE d

\* a scan that does not step over the samples that are kept
ScanUpStuck(mvd, i, np) == i

RECURSIVE ScanUp(_, _, _)
\* decode.c:336, while (mvd[i] != -1) i++; the scan stops at an index
\* outside the array, which the caller reports
ScanUp(mvd, i, np) ==
    IF i < 0 \/ i > np - 1 THEN i
    ELSE IF mvd[i] # -1 THEN ScanUp(mvd, i + 1, np) ELSE i

RECURSIVE ScanDown(_, _, _)
\* decode.c:337, while (mvd[j] == -1) j--
ScanDown(mvd, j, np) ==
    IF j < 0 \/ j > np - 1 THEN j
    ELSE IF mvd[j] = -1 THEN ScanDown(mvd, j - 1, np) ELSE j

RECURSIVE SelectLoop(_, _, _, _, _, _, _)
\* decode.c:335-343, the loop that replaces the discarded samples; oob is
\* set when mvd would be read outside 0..np-1
SelectLoop(mvd, pts, i, j, k, np, ret) ==
    IF ~(k < np - ret) THEN [pts |-> pts, oob |-> FALSE]
    ELSE LET i1 == ScanUp(mvd, i, np)
             j1 == ScanDown(mvd, j, np)
         IN IF i1 \notin 0 .. (np - 1) \/ j1 \notin 0 .. (np - 1)
            THEN [pts |-> pts, oob |-> TRUE]
            ELSE IF i1 > j1 THEN [pts |-> pts, oob |-> FALSE]
            ELSE SelectLoop([mvd EXCEPT ![i1] = mvd[j1]],
                            [pts EXCEPT ![i1] = pts[j1]],
                            i1 + 1, j1 - 1, k + 1, np, ret)

\* decode.c:322-343, the selection of derive_warpmv on the np samples pts
\* (indexed from 0)
derive_warpmv(pts, np, bw4, bh4, mv) ==
    LET thresh == WarpThresh(bw4, bh4)
        mvd == [i \in 0 .. (np - 1) |-> SampleMvd(pts[i], mv, thresh)]
        ret == Cardinality({i \in 0 .. (np - 1) : mvd[i] # -1})
        r == IF ret = 0 THEN [pts |-> pts, oob |-> FALSE]
             ELSE SelectLoop(mvd, pts, 0, np - 1, 0, np, ret)
    IN [ret |-> IF ret = 0 THEN 1 ELSE ret, pts |-> r.pts, oob |-> r.oob]

\* sample n of a block: at the threshold when near, one over it otherwise
WarpSample(n, near, mv, thresh) ==
    IF near THEN [id |-> n, dx |-> mv.x + thresh, dy |-> mv.y]
    ELSE [id |-> n, dx |-> mv.x - thresh, dy |-> mv.y + 1]

\* derive_warpmv as decode_b calls it for a warped block (decode.c:706-710,
\* 1611-1614), on any number of samples and any pattern of near and far ones
DeriveWarpmvCall ==
    /\ call.fn = "none"
    /\ \E np \in 1 .. MaxSamples, bw4 \in {1, 8, 32},
          mv \in {[x |-> 0, y |-> 0], [x |-> -3, y |-> 5]} :
         \E near \in [0 .. (np - 1) -> BOOLEAN] :
           LET pts == [i \in 0 .. (np - 1) |->
                         WarpSample(i, near[i], mv, WarpThresh(bw4, 1))]
           IN call' = [fn |-> "derive_warpmv", np |-> np, bw4 |-> bw4,
                       mv |-> mv, pts |-> pts,
                       out |-> derive_warpmv(pts, np, bw4, 1, mv)]
    /\ UNCHANGED <<picVars, tileVars, frameVars, bitVars>>

\* ---- decode_frame: the scratch buffers over a run of frames ----

\* decode.c:2273-2394, the elements each allocation of decode_frame asks for
\* (tx_lpf_right_edge in units of 64 bytes)
ScratchAlloc(h) ==
    [ts |-> h.tiling.cols * h.tiling.rows,
     a |-> Sb128w(h) * h.tiling.rows,
     line |-> Sb128w(h),
     mask |-> Sb128w(h) * Sb128h(h),
     ipred_edge |-> Sbh(h) * Sb128w(h) * 128,
     re |-> Sb128h(h) * h.tiling.cols]

\* the elements of each buffer the decoding of the frame goes through: one
\* tile state per tile (decode.c:2503), one above context per tile row and
\* 128 pixel column (2538-2539), the masks of every 128x128 superblock
\* (2365), the edge rows of every superblock row (2375-2377), and in
\* tx_lpf_right_edge[0] align_h bytes for every tile column (2226-2233)
ScratchNeed(h) ==
    [ts |-> h.tiling.cols * h.tiling.rows,
     a |-> Sb128w(h) * h.tiling.rows,
     line |-> Sb128w(h),
     mask |-> Sb128w(h) * Sb128h(h),
     ipred_edge |-> Sbh(h) * Sb128w(h) * 128,
     re |-> Sb128h(h) * h.tiling.cols]

RECURSIVE ScratchBufs(_, _, _, _, _)
\* the buffers, by their size in elements, after the allocations from step k
\* on: a buffer is replaced only when the recorded capacity sz is too small;
\* the allocation of buffer fail returns NULL after the old one was freed
ScratchBufs(buf, sz, h, k, fail) ==
    IF k > Len(ScratchSteps(h)) THEN buf
    ELSE LET st == ScratchSteps(h)[k] IN
         IF st[3] > sz[st[2]]
         THEN IF st[1] = fail THEN [buf EXCEPT ![st[1]] = 0]
              ELSE ScratchBufs([buf EXCEPT ![st[1]] = ScratchAlloc(h)[st[1]]],
                               sz, h, k + 1, fail)
         ELSE ScratchBufs(buf, sz, h, k + 1, fail)

\* the frames of a run: sizes in pixels and the tilings that fit them
\* (64x64 superblocks)
ScratchHdrs ==
    {h \in {[KeyHdr EXCEPT !.width = w, !.height = ht, !.tiling = Tiling[tl]] :
               w \in {64, 128, 192}, ht \in {64, 128}, tl \in DOMAIN Tiling} :
        /\ h.tiling.cols * 64 <= h.width
        /\ h.tiling.rows * 64 <= h.height}

\* the frames one frame context decodes in a run
MaxScratchFrames == 3

\* a frame context before its first frame (decode.c:2238-2240: every
\* capacity 0, no buffer)
NoScratch ==
    [fn |-> "decode_frame", n |-> 0, res |-> 0, hdr |-> KeyHdr,
     sz |-> NoFrame.sz, was |-> NoFrame.sz,
     buf |-> [ts |-> 0, a |-> 0, line |-> 0, mask |-> 0, ipred_edge |-> 0,
              re |-> 0]]

\* decode.c:2241-2402: the allocation phase of decode_frame on the next
\* frame of the run (n_tc == 1), any checked allocation failing
DecodeFrameAlloc ==
    LET cur == IF call.fn = "none" THEN NoScratch ELSE call IN
    /\ call.fn \in {"none", "decode_frame"}
    /\ cur.n < MaxScratchFrames
    /\ \E h \in ScratchHdrs :
         \E fail \in {"none"} \cup (ScratchGrows(cur.sz, h) \cap CheckedScratch) :
           call' = [fn |-> "decode_frame", n |-> cur.n + 1,
                    res |-> IF fail = "none" THEN 0 ELSE 0 - ENOMEM,
                    hdr |-> h, was |-> cur.sz,
                    sz |-> ScratchAfter(cur.sz, h, 1, fail),
                    buf |-> ScratchBufs(cur.buf, cur.sz, h, 1, fail)]
    /\ UNCHANGED <<picVars, tileVars, frameVars, bitVars>>

\* ---- dav1d_thread_picture_alloc on any picture (src/picture.c) ----

\* picture.c:52-55, 76-88: picture_alloc_with_edges on a Dav1dThreadPicture
\* p = [data, progress, prog]: data tells whether p->p.data[0] is set,
\* progress what p->progress points to ("own": the counters behind the
\* picture's buffer, "unset": never assigned), prog the counters it points
\* to; extra is the room asked for behind the planes, ok whether
\* dav1d_ref_create returns a buffer
picture_alloc_with_edges(p, extra, ok) ==
    IF p.data THEN [res |-> 0 - 1, p |-> p]
    ELSE IF ~ok THEN [res |-> 0 - ENOMEM, p |-> p]
    ELSE [res |-> 0,
          p |-> [p EXCEPT !.data = TRUE,
                          !.progress = IF extra THEN "own" ELSE @]]

\* what a store through a pointer that was never assigned can do
StrayStores == {"fault", "stray store"}

\* picture.c:92-111, dav1d_thread_picture_alloc: the counters are
\* initialised whenever t is set, whatever picture_alloc_with_edges returned
dav1d_thread_picture_alloc(p, t, ok, stray) ==
    LET r == picture_alloc_with_edges(p, t # 0, ok)
    IN IF t = 0 THEN [res |-> r.res, p |-> r.p, ub |-> "none"]
       ELSE IF r.p.progress = "own"
       THEN [res |-> r.res, p |-> [r.p EXCEPT !.prog = <<0, 0>>], ub |-> "none"]
       ELSE [res |-> r.res, p |-> r.p, ub |-> stray]

\* the pictures the call can find: one never allocated, one in use by a
\* frame thread with its rows signalled, one in use without frame threads
ThreadPictures ==
    {[data |-> FALSE, progress |-> "unset", prog |-> <<0, 0>>],
     [data |-> TRUE, progress |-> "unset", prog |-> <<0, 0>>]}
    \cup {[data |-> TRUE, progress |-> "own", prog |-> pr] :
            pr \in {<<0, 0>>, <<64, 64>>, <<UINT_MAX, UINT_MAX>>}}

\* dav1d_thread_picture_alloc as submit_frame calls it (decode.c:2770-2774)
ThreadPictureAllocCall ==
    /\ call.fn = "none"
    /\ \E p \in ThreadPictures, t \in {0, 1}, ok \in BOOLEAN,
          stray \in StrayStores :
         call' = [fn |-> "dav1d_thread_picture_alloc", p |-> p, t |-> t,
                  ok |-> ok,
                  out |-> dav1d_thread_picture_alloc(p, t, ok, stray)]
    /\ UNCHANGED <<picVars, tileVars, frameVars, bitVars>>

\* ---- the tile data of decode_frame, for any payload (src/decode.c) ----

\* largest payload of a tile group, in bytes
MaxPayload == 5

\* the values of a coded tile size field (the tile size less one)
SizeFields == {0, 2}

RECURSIVE TileData(_, _, _, _, _, _)
\* decode.c:2489-2515, the j loop as to the data it hands to setup_tile: t is
\* frame_hdr.tiling, g the tile group with its size fields in the order they
\* are read, data the offset of the data pointer from the start of the
\* payload, size what is left as a size_t of IntBits bits; acc is [err,
\* spans], spans the <<data, tile_sz>> of the setup_tile calls so far
TileData(t, g, j, data, size, acc) ==
    LET cols2 == 2 ^ t.log2_cols
        last_tile_row_plus1 == 1 + (g.end \div cols2)
        last_tile_col_plus1 == 1 + (g.end % cols2)
        empty_tile_cols == imax(0, last_tile_col_plus1 - t.cols)
        empty_tile_rows == imax(0, last_tile_row_plus1 - t.rows)
        empty_tiles == empty_tile_rows * cols2 + empty_tile_cols
        last == g.end - empty_tiles
        tile_row == j \div cols2
        tile_col == j % cols2
        k == Len(acc.spans) + 1
        tile_sz == IF j = last THEN size ELSE AsUint(g.coded[k] + 1)
        data1 == IF j = last THEN data ELSE data + t.n_bytes
        size1 == IF j = last THEN size ELSE AsUint(size - t.n_bytes)
    IN IF j > last THEN acc
       ELSE IF tile_col >= t.cols \/ tile_row >= t.rows
       THEN TileData(t, g, j + 1, data, size, acc)
       ELSE IF tile_sz > size1 THEN [acc EXCEPT !.err = TRUE]
       ELSE TileData(t, g, j + 1, data1 + tile_sz, AsUint(size1 - tile_sz),
                     [acc EXCEPT !.spans = Append(@, <<data1, tile_sz>>)])

\* decode.c:2476-2516, 2665-2669: the tiles of one group and what
\* decode_frame returns for it
SetupTileData(t, g) ==
    LET r == TileData(t, g, g.start, 0, g.sz, [err |-> FALSE, spans |-> <<>>])
    IN [res |-> IF r.err THEN 0 - EINVAL ELSE 0, spans |-> r.spans]

\* the tilings of the frame headers: cols x rows tiles, size fields of
\* n_bytes bytes
Tilings ==
    {[cols |-> cl, rows |-> rw, n_bytes |-> nb,
      log2_cols |-> IF cl = 1 THEN 0 ELSE IF cl = 2 THEN 1 ELSE 2] :
        cl \in 1 .. MaxTileCols, rw \in 1 .. 2, nb \in 1 .. 2}

\* a group that holds every tile of the frame, with any payload size and any
\* size fields
PayloadGroups(t) ==
    {[start |-> 0, end |-> (t.rows - 1) * (2 ^ t.log2_cols) + t.cols - 1,
      sz |-> sz, coded |-> cd] :
        sz \in 0 .. MaxPayload, cd \in [1 .. (t.cols * t.rows - 1) -> SizeFields]}

\* the tile setup of decode_frame on one tile group
TileSetupCall ==
    /\ call.fn = "none"
    /\ \E t \in Tilings : \E g \in PayloadGroups(t) :
         call' = [fn |-> "setup_tiles", tiling |-> t, g |-> g,
                  out |-> SetupTileData(t, g)]
    /\ UNCHANGED <<picVars, tileVars, frameVars, bitVars>>

\* one frame context, decode_frame called by submit_frame (n_fc == 1)
Next ==
    \/ SubmitCall
    \/ SubmitSetup
    \/ SubmitUpdateRefs
    \/ SubmitRun
    \/ SubmitDecoded
    \/ TakeOutput
    \/ DecodeStep(0)

Init == FrameInit(1) /\ PicOff /\ TileOff /\ BitsOff /\ FnOff

Spec == Init /\ [][Next]_vars

\* two frame contexts, each with its frame thread (n_fc == 2)
FrameThreads == 2

ThreadedNext ==
    \/ SubmitCall
    \/ SubmitEnter
    \/ SubmitSetup
    \/ SubmitUpdateRefs
    \/ SubmitRun
    \/ TakeOutput
    \/ \E s \in 0 .. (FrameThreads - 1) : FtStart(s) \/ DecodeStep(s) \/ FtDone(s)

InitThreaded == FrameInit(FrameThreads) /\ PicOff /\ TileOff /\ BitsOff /\ FnOff

SpecThreaded == InitThreaded /\ [][ThreadedNext]_vars

(***************************************************************************)
WaiterStep(w) ==
    WaitCall(w) \/ WaitLock(w) \/ WaitCheck(w) \/ WaitSleep(w) \/ WaitUnlock(w)

ProducerStep ==
    SignalCall \/ SignalLock \/ SignalStore \/ SignalBroadcast \/ SignalUnlock

PicNext ==
    \/ \E w \in Waiters : WaitCall(w)
    \/ \E w \in Waiters : WaitLock(w)
    \/ \E w \in Waiters : WaitCheck(w)
    \/ \E w \in Waiters : WaitSleep(w)
    \/ \E w \in Waiters : WaitUnlock(w)
    \/ SignalCall
    \/ SignalLock
    \/ SignalStore
    \/ SignalBroadcast
    \/ SignalUnlock

InitPic == PicInit /\ TileOff /\ FrameInit(1) /\ BitsOff /\ FnOff

SpecPic == InitPic /\ [][PicNext]_vars

\* Threads that can run are scheduled: every waiter and the producer get to
\* take their next step (the pthread mutex is granted to a thread that keeps
\* asking for it).
FairSpecPic ==
    /\ SpecPic
    /\ \A w \in Waiters : WF_vars(WaiterStep(w))
    /\ WF_vars(SignalLock \/ SignalStore \/ SignalBroadcast \/ SignalUnlock)

InitTile == TileInit /\ PicOff /\ FrameInit(1) /\ BitsOff /\ FnOff

SpecTile == InitTile /\ [][TileNext]_vars

\* the bit reader over one buffer, driven by any caller
BitsNext ==
    \/ GetBitsCall
    \/ FlushCall
    \/ VlcCall
    \/ VlcBit

InitBits == BitsInit /\ FnOff /\ PicOff /\ TileOff /\ FrameInit(1)

SpecBits == InitBits /\ [][BitsNext]_vars

\* one call of one of the functions, with any of its arguments
FnNext ==
    \/ NegDeinterleaveCall
    \/ ParseCall
    \/ DecodeSbCall
    \/ ThreadPictureAllocCall
    \/ TileSetupCall

InitFn == FnOff /\ BitsOff /\ PicOff /\ TileOff /\ FrameInit(1)

SpecFn == InitFn /\ [][FnNext]_vars

\* one call of one of the functions of the block parser
BlockNext ==
    \/ DecodeBCall
    \/ ReadPalCall
    \/ DeriveWarpmvCall

InitBlock == FnOff /\ BitsOff /\ PicOff /\ TileOff /\ FrameInit(1)

SpecBlock == InitBlock /\ [][BlockNext]_vars

\* a run of frames through the allocation phase of one frame context
ScratchNext ==
    \/ DecodeFrameAlloc

InitScratch == FnOff /\ BitsOff /\ PicOff /\ TileOff /\ FrameInit(1)

SpecScratch == InitScratch /\ [][ScratchNext]_vars

\* CdfThreads frame contexts, each decode_frame run by its own frame thread,
\* on frames that take their cdf from the frame before
CdfThreads == 3

CdfNext ==
    \/ SubmitCall
    \/ SubmitEnter
    \/ SubmitSetup
    \/ SubmitUpdateRefs
    \/ SubmitRun
    \/ TakeOutput
    \/ \E s \in 0 .. (CdfThreads - 1) : FtStart(s) \/ DecodeStep(s) \/ FtDone(s)

InitCdf == FrameInit(CdfThreads) /\ PicOff /\ TileOff /\ BitsOff /\ FnOff

SpecCdf == InitCdf /\ [][CdfNext]_vars

\* a caller that reads nothing but get_vlc codes, and keeps running the loop
\* of a get_vlc it is in
VlcNext ==
    \/ VlcCall
    \/ VlcBit

FairSpecVlc == InitBits /\ [][VlcNext]_vars /\ WF_vars(VlcBit)

(***************************************************************************)
(* C6: in tile-parallel mode the frame driver calls filter_sbrow(sby) and  *)
(* signals the picture's progress for row sby only after every tile column *)
(* of the tile row containing sby has published a progress greater than    *)
(* sby, under every interleaving of the driver and the tile workers.       *)
(***************************************************************************)
ThmC6_FilterAfterTiles ==
    dpc \in {"filter", "signal"} =>
        \A col \in 0..(tgeom.cols - 1) :
            /\ tpub[dpos.row * tgeom.cols + col] > dpos.sby
            /\ tprog[dpos.row * tgeom.cols + col] > dpos.sby

\* the driver filters a row of the first tile row of a frame with several
\* tile columns in pass 2, while a worker is still busy in another tile row
WitC6_FilterRow ==
    /\ dpc = "filter" /\ tgeom.cols > 1 /\ dpos.row = 0 /\ tpass = 2
    /\ TRows(tgeom) > 1
    /\ \E w \in Workers(tgeom) : wk[w].pc # "idle"

(***************************************************************************)
(* C7: on a thread-shared picture a wait of type BLOCK returns only when   *)
(* the block counter progress[0] is at least clip(y, 1, h); progress[0] is *)
(* advanced by BLOCK or ALL signals only (no Y signal is needed); a wait   *)
(* of type Y or UV never returns when only BLOCK signals were made.        *)
(***************************************************************************)
ThmC7_BlockWait ==
    /\ \A w \in Waiters :
         (wpc[w] = "done" /\ pic.t) =>
            /\ warg[w].plane_type = "BLOCK" =>
                  Prog(0) >= iclip(warg[w].y_unclipped, 1, pic.h)
            /\ warg[w].plane_type \in {"Y", "UV"} =>
                  (sigLog \cap {"Y", "ALL"} # {} /\ Prog(1) >= 1)
    /\ Prog(0) > 0 => sigLog \cap {"BLOCK", "ALL"} # {}
    /\ Prog(1) > 0 => sigLog \cap {"Y", "ALL"} # {}

\* a BLOCK wait has returned although only BLOCK signals were ever made
WitC7_BlockOnly ==
    \E w \in Waiters :
        /\ pic.t /\ wpc[w] = "done" /\ warg[w].plane_type = "BLOCK"
        /\ warg[w].y_unclipped > 0
        /\ sigLog = {"BLOCK"} /\ Prog(1) = 0

(***************************************************************************)
(* C8: no wakeup is lost: a thread blocked in dav1d_thread_picture_wait    *)
(* returns eventually once the counter it waits on has reached its row     *)
(* (fair scheduling).                                                      *)
(***************************************************************************)
Blocked(w) == wpc[w] \in {"lock", "loop", "towait", "sleeping"}

ThmC8_NoLostWakeup ==
    \A w \in Waiters :
        (Blocked(w) /\ Prog(warg[w].idx) >= AsUint(warg[w].y)) ~> (wpc[w] = "done")

\* a waiter sleeps on the condition while the producer, holding the lock, has
\* already stored a value that satisfies it
WitC8_SleepingSatisfied ==
    \E w \in Waiters :
        /\ wpc[w] = "sleeping" /\ w \in condq
        /\ Prog(warg[w].idx) >= AsUint(warg[w].y)
        /\ spc = "bcast"

(***************************************************************************)
(* C1: when decode_sb returns 1 for a superblock of the frame,             *)
(* decode_tile_sbrow and decode_frame return nonzero and submit_frame      *)
(* (n_fc = 1) returns a nonzero error to its caller, never 0: whenever     *)
(* decode_frame has returned nonzero, so has submit_frame.                 *)
(***************************************************************************)
CexC1_SubmitReportsDecodeError ==
    (sf.pc = "ret" /\ sf.res # 0) => sf.ret # 0

(***************************************************************************)
(* C2: on every return of decode_frame, a failing one included, the        *)
(* current picture has been signalled to UINT_MAX and, when                *)
(* refresh_context is set, the output cdf has been signalled.              *)
(***************************************************************************)
CexC2_SignalledOnEveryReturn ==
    \A s \in DOMAIN f :
        f[s].pc = "ret" =>
            /\ f[s].sig_max
            /\ f[s].hdr.refresh_context => f[s].cdf_sig

(***************************************************************************)
(* C3: whenever decode_frame returns a failure, every reference the frame  *)
(* held (cur, refp, ref_mvs_ref, the segmaps, mvs_ref, the tile data) has  *)
(* been released.                                                          *)
(***************************************************************************)
CexC3_ReleasedOnFailure ==
    \A s \in DOMAIN f :
        (f[s].pc = "ret" /\ f[s].res # 0) => FrameHolds(f[s]) = {}

(***************************************************************************)
(* C4: in a two-pass frame (n_fc > 1 and refresh_context) pass 2 runs only *)
(* after pass 1 has parsed every superblock row of every tile, and the     *)
(* output cdf of the frame is published (updated from the tile of pass 1,  *)
(* signalled, released) exactly once, at the end of pass 1: not during     *)
(* pass 1, and not again after pass 2.                                     *)
(***************************************************************************)
InPasses(F) == F.pc \in {"sbrow", "filter", "endpass", "finish"}

ThmC5_PassSeparation ==
    \A x \in calls :
        /\ x[1] = 1 => x[2] \notin {"recon_b_intra", "recon_b_inter",
                                    "filter_sbrow", "backup_ipred_edge"}
        /\ x[1] = 2 => x[2] \notin {"msac", "read_coef_blocks"}

\* decode_tile_sbrow has just replayed, in pass 2, a row that pass 1 parsed
WitC5_SecondPassRow ==
    \E s \in DOMAIN f :
        /\ f[s].pass = 2 /\ f[s].pc = "filter"
        /\ f[s].parsed = TileSbRows(f[s].hdr)
        /\ <<2, "recon_b_intra">> \in calls
        /\ <<2, "backup_ipred_edge">> \in calls

(***************************************************************************)
(* C9: with n_fc > 1 successive submit_frame calls target the slots 0, 1,  *)
(* ..., n_fc - 1, 0, ..., frame_thread.next stays in [0, n_fc), and the    *)
(* state of a slot (its frame header, tile list and delayed picture) is    *)
(* overwritten only while the slot's n_tile_data is 0.                     *)
(***************************************************************************)
SlotOverwritten(s) ==
    \/ f'[s].hdr # f[s].hdr
    \/ f'[s].tile # f[s].tile
    \/ c'.out_delayed[s] # c.out_delayed[s]

ThmC9_RoundRobinSlots ==
    /\ [](c.n_fc > 1 =>
            /\ c.next \in 0 .. (c.n_fc - 1)
            /\ c.next = nframes % c.n_fc
            /\ nframes > 0 => sf.slot = (nframes - 1) % c.n_fc)
    /\ [][c.n_fc > 1 =>
            \A s \in DOMAIN f : SlotOverwritten(s) => f[s].n_tile_data = 0]_vars

\* the third call has come back to slot 0 and has overwritten its state
WitC9_SlotReused ==
    /\ c.n_fc = 2 /\ nframes = 3 /\ sf.slot = 0 /\ sf.pc = "refs"
    /\ f[0].hdr.id = 3 /\ c.next = 1

(***************************************************************************)
(* C10: the reference update of submit_frame: a slot whose bit of          *)
(* refresh_frame_flags is set holds the frame's picture, cdf, segmap,      *)
(* global motion and film grain data and, unless the frame allows intra    *)
(* block copy, its motion vector buffer (with intra block copy: none);     *)
(* every displaced holder's count has gone down once per slot it left and  *)
(* every new holder's up once per slot it took; a slot whose bit is clear  *)
(* is unchanged.                                                           *)
(***************************************************************************)
RefsStep == sf.pc = "refs" /\ sf'.pc = "run"

Refreshed == {i \in RefSlots : (c.frame_hdr.refresh_frame_flags \div (2 ^ i)) % 2 = 1}

\* what slot i holds of a kind, before and after the step
SlotHolds(cc, kind, i) ==
    CASE kind = "pic" -> cc.refs[i].p
      [] kind = "cdf" -> cc.cdf[i]
      [] kind = "seg" -> cc.refs[i].segmap
      [] kind = "mvs" -> cc.refs[i].refmvs

CountsFollowSlots ==
    \A kind \in {"pic", "cdf", "seg", "mvs"} : \A id \in DOMAIN rc[kind] :
        rc'[kind][id] =
            rc[kind][id]
            - Cardinality({i \in Refreshed : SlotHolds(c, kind, i) = id})
            + Cardinality({i \in Refreshed : SlotHolds(c', kind, i) = id})

SlotsTakeFrame(mvs) ==
    LET F == f[sf.slot]
        h == c.frame_hdr
    IN /\ \A i \in Refreshed :
            /\ c'.refs[i] = [p |-> F.cur, segmap |-> F.cur_segmap_ref,
                             refmvs |-> mvs, gmv |-> h.id, film_grain |-> h.id]
            /\ c'.cdf[i] = IF h.refresh_context THEN F.out_cdf ELSE F.in_cdf
       /\ \A i \in RefSlots \ Refreshed :
            c'.refs[i] = c.refs[i] /\ c'.cdf[i] = c.cdf[i]
       /\ CountsFollowSlots

PicHandles(id) ==
    Cardinality({i \in RefSlots : c.refs[i].p = id})
    + (IF c.out = id THEN 1 ELSE 0)
    + (IF f[0].cur = id THEN 1 ELSE 0)
    + Cardinality({i \in RefNames : f[0].refp[i] = id})

ThmC11_PictureCounts ==
    c.n_fc = 1 => \A id \in Frames : rc.pic[id] = PicHandles(id)

\* an inter frame is being decoded: the first picture is held by the
\* reference store and by the frame's refp, the second by f->cur
WitC11_InterFrameHolds ==
    /\ c.n_fc = 1 /\ sf.pc = "decoding" /\ f[0].hdr.inter
    /\ f[0].cur = 2 /\ f[0].refp[1] = 1
    /\ rc.pic[1] > 7 /\ rc.pic[2] > 1

(***************************************************************************)
(* C12: for a frame with refresh_context the output cdf that decode_frame  *)
(* publishes is updated from the state of the tile that was set up for     *)
(* index tiling.update, for every tile layout.                             *)
(***************************************************************************)
CexC12_PublishedFromUpdateTile ==
    \A s \in DOMAIN f :
        (f[s].hdr.refresh_context /\ f[s].cdf_pubs > 0) =>
            /\ f[s].update_set
            /\ cdfs[OutCdfId(f[s].hdr.id)].upd = f[s].update_ts


(***************************************************************************)
(* C13: for every n in 0 .. 32 and every v below 2^n, get_bits(c, n) at a  *)
(* place where the buffer holds v as n bits, most significant first,       *)
(* returns v and moves the reader on by exactly n bits.                    *)
(***************************************************************************)
\* the latest call was a get_bits whose bits all lie inside the buffer
ReadInside ==
    /\ rd.op = "get_bits"
    /\ rd.pc = "idle"
    /\ rd.pos + rd.n <= 8 * gb.ptr_end

ThmC13_GetBitsRoundTrip ==
    ReadInside =>
        /\ rd.ret = Widen(SubSeq(BufBits(gb.data), rd.pos + 1, rd.pos + rd.n))
        /\ BitPos(gb) = rd.pos + rd.n

\* a 32-bit value with its top bit set, read across byte boundaries from a
\* place that is not a byte boundary
WitC13_WideUnalignedRead ==
    /\ ReadInside
    /\ rd.n = 32
    /\ rd.pos % 8 = 2
    /\ rd.ret[1] = 1
    /\ rd.ret # LowOnes(32)

(***************************************************************************)
(* C14: get_vlc terminates on every input buffer, one that runs out or is  *)
(* all zero before any one bit included, and returns 0xFFFFFFFF whenever   *)
(* the unary prefix has 32 or more leading zeros.                          *)
(***************************************************************************)
\* get_vlc has returned after a prefix of 32 zeros or more
VlcLongPrefix == rd.op = "get_vlc" /\ rd.pc = "idle" /\ rd.n_bits >= 32

CexC14_VlcTerminates ==
    /\ (rd.pc = "vlc") ~> (rd.pc = "idle")
    /\ [](VlcLongPrefix => rd.ret = LowOnes(32))

(***************************************************************************)
(* C15: for a reader over sz bytes and any calls of get_bits with no       *)
(* flush_get_bits between them, error is 0 while the bits asked for so far *)
(* are at most 8 * sz; the first call that needs a bit behind the end sets *)
(* error to 1, it stays 1, and every bit behind the end reads as 0.        *)
(***************************************************************************)
\* only get_bits was called so far
OnlyReads == rd.op \in {"init", "get_bits"} /\ ~rd.flushes

\* the bits of the value returned that lie behind the end of the buffer
BitsBehind ==
    {i \in 1 .. rd.n : rd.pos + i > 8 * gb.ptr_end}

CexC15_ErrorLatch ==
    OnlyReads =>
        /\ (rd.cur <= 8 * gb.ptr_end) => gb.error = 0
        /\ (rd.cur > 8 * gb.ptr_end) => gb.error = 1
        /\ \A i \in BitsBehind : rd.ret[32 - rd.n + i] = 0

(***************************************************************************)
(* C16: after reads that took k bits since init_get_bits, all of them      *)
(* inside the buffer, at most 7 unread bits are left in the register and   *)
(* flush_get_bits returns ptr_start + ceil(k / 8); the read that follows   *)
(* the flush starts at bit 0 of that byte.                                 *)
(***************************************************************************)
\* k bits were read, all of them inside the buffer, and nothing else was
\* called
ReadsInside == OnlyReads /\ rd.cur <= 8 * gb.ptr_end

\* flush_get_bits was the first call after such reads: rd.pos is k
FlushedInside ==
    /\ rd.op = "flush"
    /\ rd.pos <= 8 * gb.ptr_end
    /\ gb.error = 0

\* get_bits was called right after flush_get_bits, for bits inside the buffer
ReadAfterFlush ==
    /\ rd.op = "get_bits"
    /\ rd.flushed >= 0
    /\ 8 * rd.flushed + rd.n <= 8 * gb.ptr_end

ThmC16_FlushPosition ==
    /\ ReadsInside => gb.bits_left <= 7
    /\ ReadsInside => gb.ptr = (rd.cur + 7) \div 8
    /\ FlushedInside => rd.flushed = (rd.pos + 7) \div 8
    /\ ReadAfterFlush =>
          rd.ret = Widen(SubSeq(BufBits(gb.data), 8 * rd.flushed + 1,
                                8 * rd.flushed + rd.n))

\* flushed three bits into the second byte, with five bits unread
WitC16_FlushedMidByte ==
    /\ FlushedInside
    /\ rd.pos = 11
    /\ rd.flushed = 2
    /\ gb.bits_left = 0
    /\ gb.data[2] = 165

(***************************************************************************)
(* C17: for every max and every ref with 0 <= ref <= max, the function     *)
(* diff -> av1_neg_deinterleave(diff, ref, max) on [0, max] is a bijection *)
(* onto [0, max].  As amended: for ref < max, on [0, max - 1] it is a      *)
(* bijection onto [0, max - 1].                                            *)
(***************************************************************************)
\* call.seg_id on lo .. hi has no value outside lo .. hi and none twice
Permutes(lo, hi) ==
    /\ \A d \in lo .. hi : call.seg_id[d] \in lo .. hi
    /\ \A d, e \in lo .. hi : call.seg_id[d] = call.seg_id[e] => d = e

NegCalled == call.fn = "av1_neg_deinterleave"

CexC17_PermutesUpToMax == NegCalled => Permutes(0, call.max)

ThmC17_PermutesBelowMax ==
    (NegCalled /\ call.ref < call.max) => Permutes(0, call.max - 1)

\* eight segments, predicted id 5: the differences beyond 2 * (max - ref - 1)
\* are mirrored
WitC17_MirroredTail ==
    /\ NegCalled
    /\ call.max = 8
    /\ call.ref = 5
    /\ call.seg_id[3] = 7
    /\ call.seg_id[5] = 2

(***************************************************************************)
(* C19: parse accepts every documented option in its short and in its long *)
(* form with the same effect; for every N, "-s N" sets cli_settings->skip  *)
(* to N exactly as "--skip N" does, as the usage text advertises.          *)
(***************************************************************************)
\* the command line with every documented short option in its long form
LongForm(argv) ==
    [i \in DOMAIN argv |->
        IF argv[i].k = "short" /\ argv[i].name \in DOMAIN Documented
        THEN Long(Documented[argv[i].name]) ELSE argv[i]]

CexC19_ShortAsLong ==
    call.fn = "parse" => call.out = parse(LongForm(call.argv), call.permute)

(***************************************************************************)
(* C20: in decode_sb, whenever have_h_split or have_v_split is false at    *)
(* the current level, the partition is forced to PARTITION_SPLIT: no block *)
(* that is not a split is decoded at that level, for any bitstream.  As    *)
(* amended: with both false nothing is decoded at the level; with one      *)
(* false the only block decoded at the level is the first half of a        *)
(* PARTITION_H (bottom edge) or PARTITION_V (right edge).                  *)
(***************************************************************************)
\* the blocks <<bl, bp, bx, by>> handed to decode_b
BlocksDecoded == {call.blocks[i] : i \in DOMAIN call.blocks}

\* hsz, and t->bx, t->by of the decode_sb call at level bl that a block
\* belongs to: blocks of a level lie on a grid of 2 * hsz
HszOf(blk) == 16 \div (2 ^ blk[1])
SbX(blk) == (blk[3] \div (2 * HszOf(blk))) * 2 * HszOf(blk)
SbY(blk) == (blk[4] \div (2 * HszOf(blk))) * 2 * HszOf(blk)

HaveHSplit(blk) == call.bw > SbX(blk) + HszOf(blk)
HaveVSplit(blk) == call.bh > SbY(blk) + HszOf(blk)

CexC20_EdgeForcesSplit ==
    call.fn = "decode_sb" =>
        \A blk \in BlocksDecoded :
            (~HaveHSplit(blk) \/ ~HaveVSplit(blk)) => blk[2] = "PARTITION_SPLIT"

ThmC20_EdgeSplitOrHalf ==
    call.fn = "decode_sb" =>
        \A blk \in BlocksDecoded :
            /\ HaveHSplit(blk) \/ HaveVSplit(blk)
            /\ (~HaveHSplit(blk) \/ ~HaveVSplit(blk)) =>
                  /\ blk[2] = IF HaveHSplit(blk) THEN "PARTITION_H"
                              ELSE "PARTITION_V"
                  /\ blk[3] = SbX(blk)
                  /\ blk[4] = SbY(blk)
            /\ blk[3] < call.bw
            /\ blk[4] < call.bh

\* a 64x32 frame: the 64x64 block crosses the bottom edge and its upper
\* half is decoded as one 64x32 block
WitC20_HalfAtBottomEdge ==
    /\ call.fn = "decode_sb"
    /\ call.bw = 16
    /\ call.bh = 8
    /\ call.blocks = << <<BL_64X64, "PARTITION_H", 0, 0>> >>

(***************************************************************************)
(* C18: when the allocation of the picture fails inside submit_frame,      *)
(* submit_frame returns a negative error code and the frame slot is        *)
(* unwound: the references taken for this frame (f->refp[0..6], in_cdf,    *)
(* out_cdf, the copied tile data) are released and the slot can be used by *)
(* the next submit_frame.                                                  *)
(***************************************************************************)
\* submit_frame has returned what dav1d_thread_picture_alloc returned
AllocFailed ==
    /\ sf.pc = "ret"
    /\ sf.res = 0
    /\ sf.ret \in {0 - ENOMEM, 0 - 1}

CexC18_AllocFailureUnwinds ==
    AllocFailed =>
        LET F == f[sf.slot] IN
        /\ \A i \in RefNames : F.refp[i] = 0
        /\ F.in_cdf = 0
        /\ F.out_cdf = 0
        /\ F.tile_refs = 0

\* ---- C21 ----

\* the columns of t->a and the rows of t->l a block's luma footprint covers
Cols(g) == g.bx4 .. (g.bx4 + g.bw4 - 1)

Rows(g) == g.by4 .. (g.by4 + g.bh4 - 1)

\* field fld holds av in every column and lv in every row of the footprint
Holds2(fld, av, lv) ==
    /\ \A i \in Cols(call.g) : call.t.a[fld][i] = av
    /\ \A j \in Rows(call.g) : call.t.l[fld][j] = lv

HoldsIn(fld, v) == Holds2(fld, v, v)

\* field fld is as it was before the call, in every entry
Untouched(fld) ==
    /\ call.t.a[fld] = call.before.a[fld]
    /\ call.t.l[fld] = call.before.l[fld]

\* the chroma columns and rows hold v
ChromaHolds(v) ==
    /\ \A i \in call.g.cbx4 .. (call.g.cbx4 + call.g.cbw4 - 1) :
         call.t.a.uvmode[i] = v
    /\ \A j \in call.g.cby4 .. (call.g.cby4 + call.g.cbh4 - 1) :
         call.t.l.uvmode[j] = v

BlockParsed == call.fn = "decode_b"

InterBlock == call.b.intra = 0 /\ call.env.inter

\* C21 as stated: after decode_b parses a block, the context entries of its
\* footprint equal the fields of the Block record (the fields the record of
\* the block's type has)
CexC21_ContextsEqualBlock ==
    BlockParsed =>
      /\ HoldsIn("intra", call.b.intra)
      /\ HoldsIn("skip", call.b.skip)
      /\ HoldsIn("skip_mode", call.b.skip_mode)
      /\ HoldsIn("seg_pred", call.b.seg_pred)
      /\ call.b.intra = 1 =>
           /\ HoldsIn("mode", call.b.y_mode)
           /\ HoldsIn("pal_sz", call.b.pal_sz[1])
      /\ InterBlock =>
           /\ HoldsIn("mode", call.b.inter_mode)
           /\ HoldsIn("comp_type", call.b.comp_type)
           /\ HoldsIn("ref0", call.b.ref[1])
           /\ HoldsIn("ref1", call.b.ref[2])

\* C21, amended: after decode_b parses a block in pass 0 or 1, over the
\* block's footprint intra, skip, skip_mode and seg_pred equal the parsed
\* values; pal_sz is pal_sz[0] of an intra block and 0 otherwise; mode is
\* y_mode with FILTER_PRED stored as DC_PRED (intra), DC_PRED (intrabc) or
\* inter_mode (inter); comp_type, ref and filter are the block's for an inter
\* block, COMP_INTER_NONE, -1 and N_SWITCHABLE_FILTERS for an intra block of
\* an inter frame, and not written in an intra frame; tx is the log2 width
\* (above) and height (left) of the intra block's transform, written only
\* in inter frames and with intrabc; uvmode is written over the chroma
\* footprint, and only when the block has chroma.
ThmC21_ContextsFollowBlock ==
    BlockParsed =>
      LET b == call.b
          t_dim == av1_txfm_dimensions(b.tx)
      IN
      /\ HoldsIn("intra", b.intra)
      /\ HoldsIn("skip", b.skip)
      /\ HoldsIn("skip_mode", b.skip_mode)
      /\ HoldsIn("seg_pred", b.seg_pred)
      /\ HoldsIn("pal_sz", IF b.intra = 1 THEN b.pal_sz[1] ELSE 0)
      /\ HoldsIn("mode",
                 IF b.intra = 1
                 THEN (IF b.y_mode = "FILTER_PRED" THEN "DC_PRED" ELSE b.y_mode)
                 ELSE IF InterBlock THEN b.inter_mode ELSE "DC_PRED")
      /\ InterBlock =>
           /\ HoldsIn("comp_type", b.comp_type)
           /\ HoldsIn("ref0", b.ref[1])
           /\ HoldsIn("ref1", b.ref[2])
           /\ HoldsIn("filter0", b.filter[1])
           /\ HoldsIn("filter1", b.filter[2])
      /\ (b.intra = 1 /\ call.env.inter) =>
           /\ HoldsIn("comp_type", "COMP_INTER_NONE")
           /\ HoldsIn("ref0", -1)
           /\ HoldsIn("ref1", -1)
           /\ HoldsIn("filter0", "N_SWITCHABLE_FILTERS")
           /\ HoldsIn("filter1", "N_SWITCHABLE_FILTERS")
      /\ ~call.env.inter =>
           \A fld \in {"comp_type", "ref0", "ref1", "filter0", "filter1"} :
             Untouched(fld)
      /\ b.intra = 1 =>
           IF call.env.inter \/ call.env.allow_intrabc
           THEN Holds2("tx", t_dim.lw, t_dim.lh)
           ELSE Untouched("tx")
      /\ IF call.g.has_chroma
         THEN ChromaHolds(IF b.intra = 1 THEN b.uv_mode ELSE "DC_PRED")
         ELSE Untouched("uvmode")

\* a FILTER_PRED block of an inter frame was parsed, two units wide: its
\* columns hold DC_PRED
WitC21_FilterPredStored ==
    /\ BlockParsed
    /\ call.b.intra = 1
    /\ call.b.y_mode = "FILTER_PRED"
    /\ call.env.inter
    /\ call.g.bw4 = 2
    /\ HoldsIn("mode", "DC_PRED")

\* ---- C22 ----

PalRead == call.fn = "read_pal_plane" /\ call.pl = 0

\* the highest value of a sample at the call's bit depth
PalMax == 2 ^ call.bpc - 1

\* C22 as stated: the luma palette read_pal_plane leaves has 2..8 entries,
\* strictly increasing
CexC22_StrictlyIncreasing ==
    PalRead =>
      /\ call.out.pal_sz \in 2 .. 8
      /\ \A i \in 1 .. (call.out.pal_sz - 1) :
           call.out.pal[i] < call.out.pal[i + 1]

\* C22, amended: after read_pal_plane for the luma plane the palette has
\* pal_sz entries, pal_sz in 2..8, in non-decreasing order; two neighbouring
\* entries are equal only where the new entries saturated (the value is
\* 2^bpc - 2 or more) or where a reused cache entry equals the other one;
\* the reused cache entries are strictly increasing.
ThmC22_PaletteOrdered ==
    PalRead =>
      /\ call.out.pal_sz \in 2 .. 8
      /\ Len(call.out.pal) = call.out.pal_sz
      /\ \A i \in 1 .. (call.out.pal_sz - 1) :
           /\ call.out.pal[i] <= call.out.pal[i + 1]
           /\ call.out.pal[i] = call.out.pal[i + 1] =>
                \/ call.out.pal[i] >= PalMax - 1
                \/ \E n \in 1 .. Len(call.out.used) :
                     call.out.used[n] = call.out.pal[i]
      /\ \A n \in 1 .. (Len(call.out.used) - 1) :
           call.out.used[n] < call.out.used[n + 1]

\* three entries were read with no cache entry reused, and the last two are
\* both the highest sample value
WitC22_SaturatedRepeat ==
    /\ PalRead
    /\ call.out.used = <<>>
    /\ call.out.pal_sz = 3
    /\ call.out.pal[2] = PalMax
    /\ call.out.pal[3] = PalMax

\* ---- C23 ----

WarpCalled == call.fn = "derive_warpmv"

\* the samples of the call whose MV difference is within the threshold
WarpKept ==
    {i \in 0 .. (call.np - 1) :
       Abs(call.pts[i].dx - call.mv.x) + Abs(call.pts[i].dy - call.mv.y)
         <= 4 * iclip(imax(call.bw4, 1), 4, 28)}

\* C23: after the selection loop of derive_warpmv the first ret entries of
\* pts are exactly the samples within the threshold, each once; when none
\* is, ret is 1 and the first sample stays; no index leaves 0..np-1
ThmC23_SelectsKept ==
    WarpCalled =>
      /\ ~call.out.oob
      /\ IF WarpKept = {}
         THEN call.out.ret = 1 /\ call.out.pts[0] = call.pts[0]
         ELSE /\ call.out.ret = Cardinality(WarpKept)
              /\ {call.out.pts[n].id : n \in 0 .. (call.out.ret - 1)} = WarpKept
              /\ \A n \in 0 .. (call.out.ret - 1) :
                   call.out.pts[n] = call.pts[call.out.pts[n].id]

\* eight samples, the first two and the fifth over the threshold: the
\* samples from the end were moved into their places
WitC23_MovedFromEnd ==
    /\ WarpCalled
    /\ call.np = 8
    /\ WarpKept = {2, 3, 5, 6, 7}
    /\ call.out.ret = 5
    /\ call.out.pts[0].id = 7
    /\ call.out.pts[1].id = 6

\* ---- C24 ----

\* C24: over a run of frames of one frame context, after the allocation
\* phase of decode_frame went through, every scratch buffer has at least the
\* elements the frame needs, and no recorded capacity went down
CexC24_ScratchCoversFrame ==
    (call.fn = "decode_frame" /\ call.res = 0) =>
      /\ \A b \in DOMAIN call.buf : call.buf[b] >= ScratchNeed(call.hdr)[b]
      /\ \A k \in DOMAIN call.sz : call.sz[k] >= call.was[k]

\* ---- C25 ----

\* C25: with frame threads, submit_frame never returns while it owns the
\* td.lock of the slot it was called on
CexC25_LockFreeOnReturn ==
    (c.n_fc > 1 /\ sf.pc = "ret") => tdlock[sf.slot] # 1

\* ---- C26 ----

\* submit_frame has just copied the contents of f->in_cdf into f->out_cdf
\* (decode.c:2760-2762) for the frame of slot s
CdfCopied(s) ==
    /\ sf.pc = "refs"
    /\ sf.slot = s
    /\ f[s].hdr.refresh_context

\* C26: with frame threads, the contents of an input cdf that is the output
\* cdf of an earlier frame are read only once that frame has signalled it:
\* when submit_frame has copied it, it is signalled
CexC26_CdfReadAfterSignal ==
    \A s \in DOMAIN f :
        (c.n_fc > 1 /\ CdfCopied(s)) => CdfReady(f[s].in_cdf)

\* ---- C27 ----

\* C27: a dav1d_thread_picture_alloc that fails returns a negative value
\* and has stored nothing through p->progress: the counters of a picture
\* that was already allocated are as they were, and no pointer that was
\* never assigned is stored through
CexC27_FailedAllocKeepsProgress ==
    (call.fn = "dav1d_thread_picture_alloc" /\ call.out.res < 0) =>
      /\ call.out.p.prog = call.p.prog
      /\ call.out.ub = "none"

\* ---- C28 ----

\* the offsets from ptr_start of the bytes refill has dereferenced so far:
\* every *c->ptr++ (getbits.c:53-54) reads the byte at ptr and steps over it
BytesRead == 0 .. (gb.ptr - 1)

\* C28: whatever the size of the buffer and whatever calls were made, the
\* reader has dereferenced bytes of [ptr_start, ptr_end) only and c->ptr is
\* not behind ptr_end
CexC28_ReadsInsideBuffer ==
    /\ BytesRead \subseteq 0 .. (gb.ptr_end - 1)
    /\ gb.ptr <= gb.ptr_end

\* ---- C29 ----

RECURSIVE PayloadFits(_, _, _, _)
\* whether rem bytes of payload hold the size fields and the declared sizes
\* of the tiles from the k-th on, the last tile taking what is left
PayloadFits(t, g, k, rem) ==
    IF k > Len(g.coded) THEN TRUE
    ELSE /\ rem >= t.n_bytes
         /\ rem - t.n_bytes >= g.coded[k] + 1
         /\ PayloadFits(t, g, k + 1, rem - t.n_bytes - (g.coded[k] + 1))

TilesSetUp == call.fn = "setup_tiles"

\* C29: every tile handed to setup_tile lies inside the payload of its tile
\* group, and a payload too short for a size field or a declared tile size
\* makes decode_frame return -EINVAL
CexC29_TilesInsidePayload ==
    TilesSetUp =>
      /\ \A i \in 1 .. Len(call.out.spans) :
           call.out.spans[i][1] + call.out.spans[i][2] <= call.g.sz
      /\ ~PayloadFits(call.tiling, call.g, 1, call.g.sz)
           => call.out.res = 0 - EINVAL

\* ---- C30 ----

\* a step of submit_frame that allocates the picture of the new frame, and
\* so goes on to the segmentation maps (decode.c:2836)
SegmapStep ==
    /\ sf.pc = "setup"
    /\ f[sf.slot].cur = 0
    /\ f'[sf.slot].cur # 0

\* C30: whatever segmentation.enabled, update_map and temporal are and
\* whatever the size of the primary reference, submit_frame does not
\* increment or dereference a null segmentation map reference
CexC30_SegmapRefNotNull ==
    [][SegmapStep => sf'.pc # "crashed"]_vars

====
